---- MODULE Spec2Model ----
(***************************************************************************)
(* SambaManager: the single-worker task queue, the smb.conf record store   *)
(* (share sections, [global]/[homes] update, raw replace) and the user     *)
(* provisioning / deprovisioning chains, modelled from the Go sources.     *)
(*                                                                         *)
(* Text is modelled as sequences of tokens (a token is an indivisible run  *)
(* of characters), a line is a token sequence without a line break, and a  *)
(* file content is the non-empty sequence of lines obtained by splitting   *)
(* the text at every "\n" (so a text ending in "\n" has a last line <<>>). *)
(***************************************************************************)
EXTENDS Integers, Sequences, FiniteSets, TLC

VARIABLES
    tasks,      \* Queue.tasks: the buffered channel, oldest first (request ids)
    closed,     \* close(q.tasks) has happened
    cancelled,  \* q.cancel() has happened (q.ctx.Done() is ready)
    wpc,        \* per worker goroutine: "select" | "running" | "exited"
    wcur,       \* per worker goroutine: the request whose task it runs (0: none)
    sdpc,       \* Queue.Shutdown in main: "idle" | "cancelled" | "closed" | "returned"
    req,        \* per request: what the HTTP handler was asked to do
    cpc,        \* per request goroutine: "idle" | "waiting" | "direct" | "returned" | "panicked"
    done,       \* per SubmitSync call: its done channel (capacity 1)
    ret,        \* per request: the value Submit / SubmitSync / the service returned
    accepted,   \* history: requests whose task was sent on q.tasks, in send order
    opc,        \* per request: position inside the task / service call
    tres,       \* per request: the value the task itself returned
    loc,        \* per request: the locals of the running service call
    file,       \* content of smb.conf
    backup,     \* content of smb.conf.backup ("none": no such file)
    mu,         \* SambaService.mu: 0 free, else the request holding the write lock
    fs,         \* directories under the managed home root (path token sequences)
    unixUsers,  \* accounts in extrausers passwd
    smbUsers,   \* accounts in tdbsam
    smbEnabled, \* enabled tdbsam accounts
    now,        \* the wall clock, in seconds
    last        \* the last completed sequential service call: inputs, result, pre-state

vars == <<tasks, closed, cancelled, wpc, wcur, sdpc, req, cpc, done, ret, accepted,
          opc, tres, loc, file, backup, mu, fs, unixUsers, smbUsers, smbEnabled, now, last>>

queueVars == <<tasks, closed, cancelled, wpc, wcur, sdpc>>
callVars  == <<req, cpc, done, ret, accepted, opc, tres, loc>>
storeVars == <<file, backup, mu, fs, unixUsers, smbUsers, smbEnabled, now>>

(***************************************************************************)
(* Bounds of the model.                                                    *)
(***************************************************************************)
NCallers == 3       \* concurrent HTTP requests
MaxClock == 1       \* the clock ticks at most this many seconds
NClients == 2       \* concurrent requests that touch smb.conf
MaxShares == 2      \* CreateShare is called while the file has fewer share sections

Callers == 1 .. NCallers

NilErr == "nil"
TaskErr == "err"
CtxCanceled == "context canceled"

(***************************************************************************)
(* Text. A string is a sequence of tokens; NL is the line break.           *)
(* AlnumToks are runs of letters and digits, HanToks runs of Han           *)
(* characters; the other tokens are single punctuation characters, except  *)
(* "-share-", ".." and "a..b", which stand for exactly those characters.   *)
(***************************************************************************)
NL == "\n"
SP == " "

RECURSIVE SeqAll(_, _)
\* every element of s is in S
SeqAll(s, S) == s = <<>> \/ (Head(s) \in S /\ SeqAll(Tail(s), S))

Front(s) == SubSeq(s, 1, Len(s) - 1)
Last(s) == s[Len(s)]

\* strings.HasPrefix / strings.HasSuffix / strings.TrimPrefix
HasPrefix(s, p) == Len(p) <= Len(s) /\ SubSeq(s, 1, Len(p)) = p
HasSuffix(s, p) == Len(p) <= Len(s) /\ SubSeq(s, Len(s) - Len(p) + 1, Len(s)) = p
TrimPrefix(s, p) == IF HasPrefix(s, p) THEN SubSeq(s, Len(p) + 1, Len(s)) ELSE s

\* strings.Contains
Contains(s, sub) ==
    \E i \in 1 .. (Len(s) - Len(sub) + 1) : SubSeq(s, i, i + Len(sub) - 1) = sub

RECURSIVE TrimLeftSet(_, _)
TrimLeftSet(s, cut) ==
    IF s # <<>> /\ Head(s) \in cut THEN TrimLeftSet(Tail(s), cut) ELSE s

RECURSIVE TrimRightSet(_, _)
TrimRightSet(s, cut) ==
    IF s # <<>> /\ Last(s) \in cut THEN TrimRightSet(Front(s), cut) ELSE s

\* strings.Trim(s, cutset)
Trim(s, cut) == TrimRightSet(TrimLeftSet(s, cut), cut)

\* strings.TrimSpace
TrimSpace(s) == Trim(s, {SP, "\t"})

RECURSIVE SplitOn(_, _)
\* strings.Split(s, sep) for a one-token separator: always at least one piece
SplitOn(s, sep) ==
    IF \A i \in 1 .. Len(s) : s[i] # sep
    THEN <<s>>
    ELSE LET i == CHOOSE k \in 1 .. Len(s) :
                     s[k] = sep /\ \A j \in 1 .. (k - 1) : s[j] # sep
         IN <<SubSeq(s, 1, i - 1)>> \o SplitOn(SubSeq(s, i + 1, Len(s)), sep)

\* strings.SplitN(s, sep, 2)
SplitN2(s, sep) ==
    IF \A i \in 1 .. Len(s) : s[i] # sep
    THEN <<s>>
    ELSE LET i == CHOOSE k \in 1 .. Len(s) :
                     s[k] = sep /\ \A j \in 1 .. (k - 1) : s[j] # sep
         IN <<SubSeq(s, 1, i - 1), SubSeq(s, i + 1, Len(s))>>

RECURSIVE Join(_, _)
\* strings.Join(parts, sep)
Join(parts, sep) ==
    IF parts = <<>> THEN <<>>
    ELSE IF Len(parts) = 1 THEN parts[1]
    ELSE parts[1] \o sep \o Join(Tail(parts), sep)

RECURSIVE DropEmpty(_)
DropEmpty(parts) ==
    IF parts = <<>> THEN <<>>
    ELSE IF Head(parts) = <<>> THEN DropEmpty(Tail(parts))
    ELSE <<Head(parts)>> \o DropEmpty(Tail(parts))

\* strings.Fields: the pieces between runs of white space
Fields(s) == DropEmpty(SplitOn(s, SP))

\* bufio.Scanner with ScanLines: the lines of a text, a final line break adds no line
ScanLines(text) ==
    IF text = <<>> THEN <<>>
    ELSE LET parts == SplitOn(text, NL)
         IN IF Last(parts) = <<>> THEN Front(parts) ELSE parts

RECURSIVE Concat(_)
Concat(parts) == IF parts = <<>> THEN <<>> ELSE Head(parts) \o Concat(Tail(parts))

AlnumToks == {"alice", "bob", "carol", "al", "Docs", "1", "2", "3", "4", "sub", "a", "b",
              "a33",
              "20260101000000", "20260101000001", "20260101000002", "20260101000003",
              "path", "browseable", "valid", "users", "force", "user", "group", "root",
              "read", "only", "writable", "comment", "yes", "no", "home", "samba",
              "workgroup", "WORKGROUP", "OFFICE", "security", "global", "homes",
              "printers", "note", "x", "ghost"}
HanToks == {"han"}
NameToks == AlnumToks \cup {"-", "_", "-share-"}

\* the number of characters of a token: "a33" is a run of 33 letters, a time stamp has
\* 14 digits, every other run of letters and digits in the model has at most 9
TokLen(t) ==
    IF t = "a33" THEN 33
    ELSE IF t \in {"20260101000000", "20260101000001", "20260101000002", "20260101000003"}
    THEN 14
    ELSE IF t = "-share-" THEN 7
    ELSE IF t \in AlnumToks THEN 9
    ELSE 1

RECURSIVE StrLen(_)
\* len(s), an upper estimate that is exact about the 32-character limit in the model
StrLen(s) ==
    IF s = <<>> THEN 0
    ELSE TokLen(Head(s)) + StrLen(Tail(s))

\* usernameRegex ^[a-zA-Z0-9_-]{1,32}$
isValidUsername_Any(username) == TRUE
isValidUsername(username) ==
    /\ SeqAll(username, NameToks)
    /\ StrLen(username) >= 1
    /\ StrLen(username) <= 32

\* shareNameRegex ^[a-zA-Z0-9\p{Han}]+$, the empty name allowed
isValidShareName(name) ==
    name = <<>> \/ SeqAll(name, AlnumToks \cup HanToks)

\* sharePattern ^([a-zA-Z0-9_-]+)-share-(.+)$: where the (greedy) owner group ends
SharePatternCuts(s) ==
    {i \in 2 .. (Len(s) - 1) :
        /\ s[i] = "-share-"
        /\ SeqAll(SubSeq(s, 1, i - 1), NameToks)
        /\ \A j \in (i + 1) .. Len(s) : s[j] # NL}
sharePatternMatch(s) == SharePatternCuts(s) # {}
\* FindStringSubmatch(s)[1]
sharePatternOwner_Lazy(s) ==
    LET i == CHOOSE k \in SharePatternCuts(s) : \A j \in SharePatternCuts(s) : k <= j
    IN SubSeq(s, 1, i - 1)
sharePatternOwner(s) ==
    LET i == CHOOSE k \in SharePatternCuts(s) : \A j \in SharePatternCuts(s) : j <= k
    IN SubSeq(s, 1, i - 1)

(***************************************************************************)
(* Paths: path/filepath on token strings with "/" separators.              *)
(***************************************************************************)
\* config.AppConfig.HomeDir (createDefaultConfig)
HomeDir == <<"/", "home", "/", "samba">>

RECURSIVE CleanSegs(_, _, _)
\* filepath.Clean's walk over the path elements; out is the stack built so far
CleanSegs(segs, rooted, out) ==
    IF segs = <<>> THEN out
    ELSE LET e == Head(segs)
             rest == Tail(segs)
         IN IF e = <<>> \/ e = <<".">>
            THEN CleanSegs(rest, rooted, out)
            ELSE IF e = <<"..">>
            THEN IF out # <<>> /\ Last(out) # <<"..">>
                 THEN CleanSegs(rest, rooted, Front(out))
                 ELSE IF rooted
                 THEN CleanSegs(rest, rooted, out)
                 ELSE CleanSegs(rest, rooted, Append(out, e))
            ELSE CleanSegs(rest, rooted, Append(out, e))

\* filepath.Clean
Clean(p) ==
    IF p = <<>> THEN <<".">>
    ELSE LET rooted == Head(p) = "/"
             out == CleanSegs(SplitOn(p, "/"), rooted, <<>>)
         IN IF rooted THEN <<"/">> \o Join(out, <<"/">>)
            ELSE IF out = <<>> THEN <<".">> ELSE Join(out, <<"/">>)

\* filepath.Join(a, b): empty elements are ignored, the result is cleaned
PathJoin(a, b) ==
    IF a = <<>> /\ b = <<>> THEN <<>>
    ELSE IF b = <<>> THEN Clean(a)
    ELSE IF a = <<>> THEN Clean(b)
    ELSE Clean(a \o <<"/">> \o b)

\* strings.Contains(s, ".."), on characters
ContainsDotDot(s) == \E i \in 1 .. Len(s) : s[i] \in {"..", "a..b"}

ErrTraversal == "invalid subdirectory path: path traversal not allowed"

\* cleanSubPath: [path, err]
cleanSubPath(subPath) ==
    IF subPath = <<>> THEN [path |-> <<>>, err |-> NilErr]
    ELSE LET cleaned == TrimPrefix(TrimPrefix(Clean(subPath), <<"/">>), <<"\\">>)
         IN IF ContainsDotDot(cleaned) THEN [path |-> <<>>, err |-> ErrTraversal]
            ELSE IF cleaned = <<>> \/ cleaned = <<".">> THEN [path |-> <<>>, err |-> NilErr]
            ELSE [path |-> cleaned, err |-> NilErr]

(***************************************************************************)
(* Share sections of smb.conf (services/samba.go).                         *)
(* types.Share: [Name, Owner, SharedWith, ReadOnly, Comment, SubPath];     *)
(* types.ShareResponse: [ID, Owner, Path, SharedWith, ReadOnly, Comment,   *)
(* SubPath]. SharedWith is a sequence of user names.                       *)
(***************************************************************************)
KeyPath == <<"path">>
KeyReadOnly == <<"read", SP, "only">>
KeyComment == <<"comment">>
KeyValidUsers == <<"valid", SP, "users">>

\* a line that is a section header: strings.HasPrefix(line, "[") && strings.HasSuffix(line, "]")
IsHeaderLine(line) == line # <<>> /\ Head(line) = "[" /\ Last(line) = "]"
IsSkippedLine(line) == line = <<>> \/ Head(line) \in {"#", ";"}

\* buildShareConfigLines
buildShareConfigLines(shareID, share) ==
    LET ownerHome == PathJoin(HomeDir, share.Owner)
        cleanedSubPath == cleanSubPath(share.SubPath).path
        sharePath == IF share.SubPath # <<>> /\ cleanedSubPath # <<>>
                     THEN PathJoin(ownerHome, cleanedSubPath)
                     ELSE ownerHome
        validUsersStr == Join(share.SharedWith, <<SP>>)
    IN << <<"[">> \o shareID \o <<"]">>,
          <<SP, "path", SP, "=", SP>> \o sharePath,
          <<SP, "browseable", SP, "=", SP, "yes">>,
          <<SP, "valid", SP, "users", SP, "=", SP>> \o validUsersStr,
          <<SP, "force", SP, "user", SP, "=", SP, "root">>,
          <<SP, "force", SP, "group", SP, "=", SP, "root">> >>
       \o (IF share.ReadOnly
           THEN << <<SP, "read", SP, "only", SP, "=", SP, "yes">> >>
           ELSE << <<SP, "read", SP, "only", SP, "=", SP, "no">>,
                   <<SP, "writable", SP, "=", SP, "yes">> >>)
       \o (IF share.Comment # <<>>
           THEN << <<SP, "comment", SP, "=", SP>> \o share.Comment >>
           ELSE <<>>)

\* buildShareConfig: "\n" + strings.Join(lines, "\n") + "\n"
buildShareConfig(shareID, share) ==
    <<NL>> \o Join(buildShareConfigLines(shareID, share), <<NL>>) \o <<NL>>

\* writeShareToLines
writeShareToLines(shareID, share) == buildShareConfigLines(shareID, share)

NoShare == [ID |-> "none"]

\* parseSharesFromContent: one pass of the scanner loop; st = [shares, cur]
ParseLine(st, raw) ==
    LET line == TrimSpace(raw)
        cur == st.cur
    IN IF IsSkippedLine(line) THEN st
       ELSE IF IsHeaderLine(line)
       THEN LET shareName == Trim(line, {"[", "]"})
                owner == IF sharePatternMatch(shareName)
                         THEN sharePatternOwner(shareName) ELSE <<>>
            IN [shares |-> IF cur # NoShare /\ sharePatternMatch(cur.ID)
                           THEN Append(st.shares, cur) ELSE st.shares,
                cur |-> [ID |-> shareName, Owner |-> owner, Path |-> <<>>,
                         SharedWith |-> <<>>, ReadOnly |-> FALSE,
                         Comment |-> <<>>, SubPath |-> <<>>]]
       ELSE IF cur # NoShare /\ Contains(line, <<"=">>)
       THEN LET parts == SplitN2(line, "=")
                key == TrimSpace(parts[1])
                value == TrimSpace(parts[2])
                ownerHome == PathJoin(HomeDir, cur.Owner)
                subPath == TrimPrefix(TrimPrefix(TrimPrefix(value, ownerHome),
                                                 <<"/">>), <<"\\">>)
            IN IF key = KeyPath
               THEN [st EXCEPT !.cur =
                        [cur EXCEPT !.Path = value,
                                    !.SubPath = IF HasPrefix(value, ownerHome)
                                                   /\ subPath # <<>>
                                                THEN subPath ELSE cur.SubPath]]
               ELSE IF key = KeyReadOnly
               THEN [st EXCEPT !.cur = [cur EXCEPT !.ReadOnly = (value = <<"yes">>)]]
               ELSE IF key = KeyComment
               THEN [st EXCEPT !.cur = [cur EXCEPT !.Comment = value]]
               ELSE IF key = KeyValidUsers
               THEN [st EXCEPT !.cur = [cur EXCEPT !.SharedWith = Fields(value)]]
               ELSE st
       ELSE st

RECURSIVE ParseLines(_, _)
\* the scanner loop (st = st has the state of a pass evaluated before the next pass)
ParseLines(st, lines) ==
    IF st = st /\ lines # <<>>
    THEN ParseLines(ParseLine(st, Head(lines)), Tail(lines))
    ELSE st

\* parseSharesFromContent
parseSharesFromContent(content) ==
    LET st == ParseLines([shares |-> <<>>, cur |-> NoShare], ScanLines(content))
    IN IF st.cur # NoShare /\ sharePatternMatch(st.cur.ID)
       THEN Append(st.shares, st.cur) ELSE st.shares

\* sharesToUpdate[id] != nil
HasUpdate(sharesToUpdate, id) == id \in DOMAIN sharesToUpdate

\* modifySharesInContent: what is written out when a section ends
ModifyFlush(st, sharesToDelete, sharesToUpdate) ==
    IF st.inTargetShare /\ st.currentShareID # <<>>
       /\ HasUpdate(sharesToUpdate, st.currentShareID)
    THEN st.lines \o writeShareToLines(st.currentShareID, sharesToUpdate[st.currentShareID])
    ELSE IF ~st.inTargetShare \/ st.currentShareID \notin sharesToDelete
    THEN st.lines \o st.currentShareLines
    ELSE st.lines

\* modifySharesInContent: one pass of the scanner loop;
\* st = [lines, inTargetShare, currentShareID, currentShareLines]
ModifyLine(st, line, sharesToDelete, sharesToUpdate) ==
    LET trimmedLine == TrimSpace(line)
    IN IF IsHeaderLine(trimmedLine)
       THEN LET shareName == Trim(trimmedLine, {"[", "]"})
            IN [lines |-> ModifyFlush(st, sharesToDelete, sharesToUpdate),
                inTargetShare |-> (shareName \in sharesToDelete
                                   \/ HasUpdate(sharesToUpdate, shareName)),
                currentShareID |-> shareName,
                currentShareLines |-> <<line>>]
       ELSE IF st.inTargetShare THEN st
       ELSE [st EXCEPT !.currentShareLines = Append(@, line)]

RECURSIVE ModifyLines(_, _, _, _)
\* the scanner loop (st = st has the state of a pass evaluated before the next pass)
ModifyLines(st, lines, sharesToDelete, sharesToUpdate) ==
    IF st = st /\ lines # <<>>
    THEN ModifyLines(ModifyLine(st, Head(lines), sharesToDelete, sharesToUpdate),
                     Tail(lines), sharesToDelete, sharesToUpdate)
    ELSE st

\* modifySharesInContent(content, sharesToDelete, sharesToUpdate): sharesToDelete is the
\* set of ids mapped to true, sharesToUpdate a function from ids to types.Share
modifySharesInContent(content, sharesToDelete, sharesToUpdate) ==
    LET st == ModifyLines([lines |-> <<>>, inTargetShare |-> FALSE,
                           currentShareID |-> <<>>, currentShareLines |-> <<>>],
                          ScanLines(content), sharesToDelete, sharesToUpdate)
    IN Join(ModifyFlush(st, sharesToDelete, sharesToUpdate), <<NL>>)

\* contains(slice, item)
contains(slice, item) == \E i \in 1 .. Len(slice) : slice[i] = item

RECURSIVE removeFromSlice(_, _)
\* removeFromSlice(slice, item)
removeFromSlice(slice, item) ==
    IF slice = <<>> THEN <<>>
    ELSE IF Head(slice) # item
    THEN <<Head(slice)>> \o removeFromSlice(Tail(slice), item)
    ELSE removeFromSlice(Tail(slice), item)

\* a map assignment m[k] = v
MapPut(m, k, v) == [x \in DOMAIN m \cup {k} |-> IF x = k THEN v ELSE m[x]]
EmptyMap == [x \in {} |-> x]

RECURSIVE DeletePlan(_, _, _)
\* DeleteUser: the loop collecting sharesToDelete and sharesToUpdate; plan = [del, upd]
DeletePlan(plan, shares, username) ==
    IF shares = <<>> THEN plan
    ELSE LET share == Head(shares)
             newSharedWith == removeFromSlice(share.SharedWith, username)
             next ==
                 IF share.Owner = username
                 THEN [plan EXCEPT !.del = @ \cup {share.ID}]
                 ELSE IF contains(share.SharedWith, username)
                 THEN IF Len(newSharedWith) = 0
                      THEN [plan EXCEPT !.del = @ \cup {share.ID}]
                      ELSE [plan EXCEPT !.upd =
                               MapPut(@, share.ID,
                                      [Name |-> <<>>, Owner |-> share.Owner,
                                       SharedWith |-> newSharedWith,
                                       ReadOnly |-> share.ReadOnly,
                                       Comment |-> share.Comment,
                                       SubPath |-> <<>>])]
                 ELSE plan
         IN DeletePlan(next, Tail(shares), username)

(***************************************************************************)
(* The world the service acts on, as a record S = [file, fs, unix, smb,    *)
(* en], and the service calls as operators from S, the arguments and the   *)
(* outcome of the environment (failAt: the step whose system call or       *)
(* external tool fails) to the result R = S plus [err, id, cmds]; cmds     *)
(* lists the system calls and external tools the call ran, in order.       *)
(***************************************************************************)
\* os.MkdirAll: the directory and its parents
MkdirAll(dirs, p) ==
    dirs \cup {p} \cup {SubSeq(p, 1, i - 1) : i \in {k \in 2 .. Len(p) : p[k] = "/"}}

\* os.RemoveAll: the path and everything below it
RemoveAll(dirs, p) ==
    {q \in dirs : ~(q = p \/ p = <<"/">> \/ HasPrefix(q, p \o <<"/">>))}

ErrInvalidUsername == "invalid username"
ErrInvalidOwner == "invalid owner username"
ErrInvalidShareName == "invalid share name"
ErrNoSharedWith == "must share with at least one user"
ErrInvalidSharedWith == "invalid username in shared_with"
ErrNoOwnerHome == "owner's home directory does not exist"
ErrConflict == "share name already exists for this user"
ErrNotFound == "share not found"
ErrIO == "failed to read or write samba config"
ErrTool == "external tool failed"

Begin(S) == [err |-> NilErr, id |-> <<>>, cmds |-> <<>>, file |-> S.file, fs |-> S.fs,
             unix |-> S.unix, smb |-> S.smb, en |-> S.en]
Ran(R, cmd) == [R EXCEPT !.cmds = Append(@, cmd)]
Fail(R, e) == [R EXCEPT !.err = e]

\* exec.Command("userdel", "--extrausers", username).Run()
Userdel(R, username, ok) ==
    LET R1 == Ran(R, <<"userdel", username>>)
    IN IF ok /\ username \in R.unix THEN [R1 EXCEPT !.unix = @ \ {username}] ELSE R1

\* os.RemoveAll(dir)
Rmdir(R, dir) == [Ran(R, <<"RemoveAll", dir>>) EXCEPT !.fs = RemoveAll(@, dir)]

\* ReloadSambaConfig: what cmd.Run() of smbcontrol smbd reload-config returns
ReloadSambaConfig(failAt) == IF failAt = "reload" THEN ErrTool ELSE NilErr

\* _ = ReloadSambaConfig(): the call goes on whatever the reload returned
SurfaceReload(R, err) == IF err # NilErr THEN Fail(R, err) ELSE R
DiscardReload(R, err) == R

\* the hot reload at the end of a call that changed smb.conf or the accounts
Reload(R, failAt) == DiscardReload(Ran(R, <<"smbcontrol">>), ReloadSambaConfig(failAt))

CreateUserFailures == {"none", "mkdir", "chown", "chmod", "useradd", "pipe", "start",
                       "write", "wait", "enable"}

\* SambaService.CreateUser, after validation: the chain of steps and its rollbacks.
\* rollbackOK: whether the userdel run by a rollback succeeds (its result is ignored)
CreateUserSteps(S, username, failAt, rollbackOK) ==
    LET homeDir == PathJoin(HomeDir, username)
        R1 == [Ran(Begin(S), <<"MkdirAll", homeDir>>) EXCEPT !.fs = MkdirAll(@, homeDir)]
        R2 == Ran(R1, <<"chown", homeDir>>)
        R3 == Ran(R2, <<"chmod", homeDir>>)
        R4 == Ran(R3, <<"useradd", username>>)
        R4ok == [R4 EXCEPT !.unix = @ \cup {username}]
        R5 == Ran(R4ok, <<"smbpasswd -a", username>>)
        R5ok == [R5 EXCEPT !.smb = @ \cup {username}]
        R6 == Ran(R5ok, <<"smbpasswd -e", username>>)
    IN IF failAt = "mkdir" THEN Fail(Ran(Begin(S), <<"MkdirAll", homeDir>>), ErrIO)
       ELSE IF failAt = "chown" THEN Fail(R2, ErrTool)
       ELSE IF failAt = "chmod" THEN Fail(R3, ErrTool)
       ELSE IF failAt = "useradd" \/ username \in S.unix
       THEN Fail(Rmdir(R4, homeDir), ErrTool)
       ELSE IF failAt = "pipe"
       THEN Fail(Rmdir(Userdel(R4ok, username, rollbackOK), homeDir), ErrTool)
       ELSE IF failAt \in {"start", "write", "wait"}
       THEN Fail(Rmdir(Userdel(R5, username, rollbackOK), homeDir), ErrTool)
       ELSE IF failAt = "enable"
       THEN Fail(Userdel(R6, username, rollbackOK), ErrTool)
       ELSE [R6 EXCEPT !.en = @ \cup {username}]

\* SambaService.CreateUser
CreateUser(S, user, failAt, rollbackOK) ==
    IF ~isValidUsername(user.Username)
    THEN Fail(Begin(S), ErrInvalidUsername)
    ELSE CreateUserSteps(S, user.Username, failAt, rollbackOK)

DeleteUserFailures == {"none", "read", "write", "smbpasswd", "userdel", "rm", "reload"}

\* DeleteUser: if deleteHomeDir
RemovesHome_Always(deleteHomeDir) == TRUE
RemovesHome(deleteHomeDir) == deleteHomeDir

\* SambaService.DeleteUser, from the account removal on
DeleteUserAccount(R, username, deleteHomeDir, failAt) ==
    LET R1 == Ran(R, <<"smbpasswd -x", username>>)
        R1ok == [R1 EXCEPT !.smb = @ \ {username}, !.en = @ \ {username}]
        R2 == Ran(R1ok, <<"userdel", username>>)
        R2ok == [R2 EXCEPT !.unix = @ \ {username}]
        homeDir == PathJoin(HomeDir, username)
    IN IF failAt = "smbpasswd" \/ username \notin R.smb THEN Fail(R1, ErrTool)
       ELSE IF failAt = "userdel" \/ username \notin R.unix THEN Fail(R2, ErrTool)
       ELSE IF RemovesHome(deleteHomeDir)
       THEN IF failAt = "rm" THEN Fail(Ran(R2ok, <<"RemoveAll", homeDir>>), ErrIO)
            ELSE Reload(Rmdir(R2ok, homeDir), failAt)
       ELSE Reload(R2ok, failAt)

\* DeleteUser: the return when os.WriteFile of the modified smb.conf fails; R is the
\* call up to the failed write
DeleteUserWriteError_GoOn(R, username, deleteHomeDir) ==
    Fail(DeleteUserAccount(R, username, deleteHomeDir, "none"), ErrIO)
DeleteUserWriteError(R, username, deleteHomeDir) == Fail(R, ErrIO)

\* DeleteUser: newContent, the one rewrite with the whole plan
ApplyDeletionsOnly(content, plan) == modifySharesInContent(content, plan.del, EmptyMap)
ApplyPlan(content, plan) == modifySharesInContent(content, plan.del, plan.upd)

\* SambaService.DeleteUser
DeleteUser(S, username, deleteHomeDir, failAt) ==
    LET shares == parseSharesFromContent(S.file)
        plan == DeletePlan([del |-> {}, upd |-> EmptyMap], shares, username)
        newContent == ApplyPlan(S.file, plan)
        R0 == Ran(Begin(S), <<"ReadFile">>)
    IN IF failAt = "read" THEN Fail(R0, ErrIO)
       ELSE IF plan.del # {} \/ DOMAIN plan.upd # {}
       THEN IF failAt = "write"
            THEN DeleteUserWriteError(Ran(R0, <<"WriteFile">>), username, deleteHomeDir)
            ELSE DeleteUserAccount([Ran(R0, <<"WriteFile">>) EXCEPT !.file = newContent],
                                   username, deleteHomeDir, failAt)
       ELSE DeleteUserAccount(R0, username, deleteHomeDir, failAt)

\* time.Now().Format("20060102150405")
Timestamp(t) ==
    << <<"20260101000000", "20260101000001", "20260101000002", "20260101000003">>[t + 1] >>

CreateShareFailures == {"none", "mkdir", "chown", "chmod", "read", "write", "reload"}

\* SambaService.CreateShare up to the read of smb.conf: validation, the owner's home,
\* the subdirectory. The result has err = NilErr when the call goes on to the read.
CreateSharePrepare(S, share, failAt) ==
    LET ownerHome == PathJoin(HomeDir, share.Owner)
        sub == cleanSubPath(share.SubPath)
        fullSubPath == PathJoin(ownerHome, sub.path)
        R0 == Ran(Begin(S), <<"Stat", ownerHome>>)
        R1 == [Ran(R0, <<"MkdirAll", fullSubPath>>) EXCEPT !.fs = MkdirAll(@, fullSubPath)]
        R2 == Ran(R1, <<"chown", fullSubPath>>)
        R3 == Ran(R2, <<"chmod", fullSubPath>>)
    IN IF ~isValidUsername(share.Owner) THEN Fail(Begin(S), ErrInvalidOwner)
       ELSE IF ~isValidShareName(share.Name) THEN Fail(Begin(S), ErrInvalidShareName)
       ELSE IF Len(share.SharedWith) = 0 THEN Fail(Begin(S), ErrNoSharedWith)
       ELSE IF \E i \in 1 .. Len(share.SharedWith) : ~isValidUsername(share.SharedWith[i])
       THEN Fail(Begin(S), ErrInvalidSharedWith)
       ELSE IF ownerHome \notin S.fs THEN Fail(R0, ErrNoOwnerHome)
       ELSE IF share.SubPath = <<>> THEN R0
       ELSE IF sub.err # NilErr THEN Fail(R0, sub.err)
       ELSE IF sub.path = <<>> THEN R0
       ELSE IF failAt = "mkdir" THEN Fail(Ran(R0, <<"MkdirAll", fullSubPath>>), ErrIO)
       ELSE IF failAt = "chown" THEN Fail(R2, ErrTool)
       ELSE IF failAt = "chmod" THEN Fail(R3, ErrTool)
       ELSE R3

\* CreateShare: the section name, owner-share-name or owner-share-timestamp
ShareName(share, t) ==
    IF share.Name # <<>>
    THEN share.Owner \o <<"-share-">> \o share.Name
    ELSE share.Owner \o <<"-share-">> \o Timestamp(t)

\* CreateShare: newContent := string(content) + shareConfig
OverwriteWithShare(content, shareConfig) == shareConfig
ReplaceSameSection(content, shareConfig) ==
    modifySharesInContent(content, {Trim(ScanLines(shareConfig)[2], {"[", "]"})}, EmptyMap)
        \o shareConfig
AppendShare(content, shareConfig) == content \o shareConfig

\* SambaService.CreateShare from the content read from smb.conf on: the share name,
\* the conflict check, the append, the write and the reload
CreateShareCommit(R, content, share, t, failAt) ==
    LET shareName == ShareName(share, t)
        newContent == AppendShare(content, buildShareConfig(shareName, share))
    IN IF share.Name # <<>> /\ Contains(content, <<"[">> \o shareName \o <<"]">>)
       THEN Fail(R, ErrConflict)
       ELSE IF failAt = "write" THEN Fail(Ran(R, <<"WriteFile">>), ErrIO)
       ELSE [Reload(Ran(R, <<"WriteFile">>), failAt)
                EXCEPT !.file = newContent, !.id = shareName]

\* SambaService.CreateShare
CreateShare(S, share, t, failAt) ==
    LET R == CreateSharePrepare(S, share, failAt)
    IN IF R.err # NilErr THEN R
       ELSE IF failAt = "read" THEN Fail(Ran(R, <<"ReadFile">>), ErrIO)
       ELSE CreateShareCommit(Ran(R, <<"ReadFile">>), R.file, share, t, failAt)

(***************************************************************************)
(* queue.Queue                                                             *)
(***************************************************************************)
\* main: queue.NewQueue(1)
TwoWorkers == 1 + 1
workers == 1

\* NewQueue: make(chan Task, 100)
TaskBuffer == 100

Workers == 1 .. workers

\* the position in the channel buffer a receive takes: a Go channel is FIFO
RecvNewest(ch) == Len(ch)
Recv(ch) == 1

RemoveAt(s, i) == SubSeq(s, 1, i - 1) \o SubSeq(s, i + 1, Len(s))

\* SubmitSync: done := make(chan error, 1), one channel per call
SharedDone(c) == 1
DoneChanOf(c) == c

UsesQueue(r) == r.route = "queue"
IsSync(r) == r.mode = "SubmitSync"

\* Submit, case q.tasks <- task (taken by SubmitSync through Submit as well)
SubmitSend(c) ==
    /\ cpc[c] = "idle"
    /\ UsesQueue(req[c])
    /\ ~closed
    /\ Len(tasks) < TaskBuffer
    /\ tasks' = Append(tasks, c)
    /\ accepted' = Append(accepted, c)
    /\ IF IsSync(req[c])
       THEN /\ cpc' = [cpc EXCEPT ![c] = "waiting"]
            /\ ret' = ret
       ELSE /\ cpc' = [cpc EXCEPT ![c] = "returned"]
            /\ ret' = [ret EXCEPT ![c] = NilErr]
    /\ UNCHANGED <<closed, cancelled, wpc, wcur, sdpc, req, done, opc, tres, loc>>
    /\ UNCHANGED <<storeVars, last>>

\* Submit, case q.tasks <- task chosen when the channel is closed: the send panics
SubmitPanic(c) ==
    /\ cpc[c] = "idle"
    /\ UsesQueue(req[c])
    /\ closed
    /\ cpc' = [cpc EXCEPT ![c] = "panicked"]
    /\ UNCHANGED <<queueVars, req, done, ret, accepted, opc, tres, loc, storeVars, last>>

\* Submit, case <-q.ctx.Done(): return q.ctx.Err()
SubmitRejected(c) ==
    /\ cpc[c] = "idle"
    /\ UsesQueue(req[c])
    /\ cancelled
    /\ cpc' = [cpc EXCEPT ![c] = "returned"]
    /\ ret' = [ret EXCEPT ![c] = CtxCanceled]
    /\ UNCHANGED <<queueVars, req, done, accepted, opc, tres, loc, storeVars, last>>

\* SubmitSync: return <-done
SubmitSyncReturn(c) ==
    /\ cpc[c] = "waiting"
    /\ done[DoneChanOf(c)] # <<>>
    /\ ret' = [ret EXCEPT ![c] = Head(done[DoneChanOf(c)])]
    /\ done' = [done EXCEPT ![DoneChanOf(c)] = Tail(@)]
    /\ cpc' = [cpc EXCEPT ![c] = "returned"]
    /\ UNCHANGED <<queueVars, req, accepted, opc, tres, loc, storeVars, last>>

\* worker, case task := <-q.tasks with a task in the buffer: task() starts
WorkerReceive(w) ==
    /\ wpc[w] = "select"
    /\ tasks # <<>>
    /\ LET i == Recv(tasks)
           c == tasks[i]
       IN /\ tasks' = RemoveAt(tasks, i)
          /\ wcur' = [wcur EXCEPT ![w] = c]
          /\ opc' = [opc EXCEPT ![c] = "start"]
    /\ wpc' = [wpc EXCEPT ![w] = "running"]
    /\ UNCHANGED <<closed, cancelled, sdpc, req, cpc, done, ret, accepted, tres, loc>>
    /\ UNCHANGED <<storeVars, last>>

\* worker, case task := <-q.tasks on the closed, drained channel: task == nil, loop again
WorkerReceiveNil(w) ==
    /\ wpc[w] = "select"
    /\ tasks = <<>>
    /\ closed
    /\ UNCHANGED vars

\* worker, case <-q.ctx.Done(): return (defer q.wg.Done())
WorkerExit(w) ==
    /\ wpc[w] = "select"
    /\ cancelled
    /\ wpc' = [wpc EXCEPT ![w] = "exited"]
    /\ UNCHANGED <<tasks, closed, cancelled, wcur, sdpc, callVars, storeVars, last>>

\* a task that is no service call: it runs and returns nil or an error
TaskReturn(c) ==
    /\ req[c].kind = "task"
    /\ opc[c] = "start"
    /\ \E r \in {NilErr, TaskErr} :
          tres' = [tres EXCEPT ![c] = r]
    /\ opc' = [opc EXCEPT ![c] = "ret"]
    /\ UNCHANGED <<queueVars, req, cpc, done, ret, accepted, loc, storeVars, last>>

\* worker: task() has returned; SubmitSync's wrappedTask sends the result on done
WorkerFinish(w) ==
    /\ wpc[w] = "running"
    /\ LET c == wcur[w]
       IN /\ opc[c] = "ret"
          /\ IF IsSync(req[c])
             THEN /\ Len(done[DoneChanOf(c)]) < 1
                  /\ done' = [done EXCEPT ![DoneChanOf(c)] = Append(@, tres[c])]
             ELSE done' = done
          /\ opc' = [opc EXCEPT ![c] = "done"]
    /\ wpc' = [wpc EXCEPT ![w] = "select"]
    /\ wcur' = [wcur EXCEPT ![w] = 0]
    /\ UNCHANGED <<tasks, closed, cancelled, sdpc, req, cpc, ret, accepted, tres, loc>>
    /\ UNCHANGED <<storeVars, last>>

\* Shutdown: q.cancel()
ShutdownCancel ==
    /\ sdpc = "idle"
    /\ cancelled' = TRUE
    /\ sdpc' = "cancelled"
    /\ UNCHANGED <<tasks, closed, wpc, wcur, callVars, storeVars, last>>

\* Shutdown: close(q.tasks)
ShutdownClose ==
    /\ sdpc = "cancelled"
    /\ closed' = TRUE
    /\ sdpc' = "closed"
    /\ UNCHANGED <<tasks, cancelled, wpc, wcur, callVars, storeVars, last>>

\* worker: defer q.wg.Done(), run when the worker function returns
WgDone_Always(w) == wpc[w] \in {"select", "running", "exited"}
WgDone(w) == wpc[w] = "exited"

\* Shutdown: q.wg.Wait() returns once every worker has exited
ShutdownWait ==
    /\ sdpc = "closed"
    /\ \A w \in Workers : WgDone(w)
    /\ sdpc' = "returned"
    /\ UNCHANGED <<tasks, closed, cancelled, wpc, wcur, callVars, storeVars, last>>

Started(c) == opc[c] # "init"
Finished(c) == opc[c] = "done"
Executing(c) == Started(c) /\ ~Finished(c)

EmptyDoc == <<>>
NoCall == [op |-> "none", err |-> NilErr]

\* the queue as NewQueue leaves it, no request made yet
QueueInit ==
    /\ tasks = <<>>
    /\ closed = FALSE
    /\ cancelled = FALSE
    /\ wpc = [w \in Workers |-> "select"]
    /\ wcur = [w \in Workers |-> 0]
    /\ sdpc = "idle"
    /\ cpc = [c \in Callers |-> "idle"]
    /\ done = [c \in Callers |-> <<>>]
    /\ ret = [c \in Callers |-> "unset"]
    /\ accepted = <<>>
    /\ opc = [c \in Callers |-> "init"]
    /\ tres = [c \in Callers |-> "unset"]
    /\ loc = [c \in Callers |-> "none"]
    /\ mu = 0
    /\ backup = "none"
    /\ now = 0

QueueReqs == [kind : {"task"}, route : {"queue"}, mode : {"Submit", "SubmitSync"}]

InitQueue ==
    /\ QueueInit
    /\ last = NoCall
    /\ req \in [Callers -> QueueReqs]
    /\ file = EmptyDoc
    /\ fs = {}
    /\ unixUsers = {}
    /\ smbUsers = {}
    /\ smbEnabled = {}

NextQueue ==
    \/ \E c \in Callers : SubmitSend(c)
    \/ \E c \in Callers : SubmitPanic(c)
    \/ \E c \in Callers : SubmitRejected(c)
    \/ \E c \in Callers : SubmitSyncReturn(c)
    \/ \E w \in Workers : WorkerReceive(w)
    \/ \E w \in Workers : WorkerReceiveNil(w)
    \/ \E w \in Workers : WorkerExit(w)
    \/ \E c \in Callers : TaskReturn(c)
    \/ \E w \in Workers : WorkerFinish(w)
    \/ ShutdownCancel
    \/ ShutdownClose
    \/ ShutdownWait

\* the queue alone: tasks that are not service calls, any submitters, Shutdown at any time
SpecQueue == InitQueue /\ [][NextQueue]_vars

(***************************************************************************)
(* Service calls made one after the other (as the queue's worker makes     *)
(* them), each a single step; last keeps the call's arguments, what it     *)
(* returned, what it ran and the world before it.                          *)
(***************************************************************************)
World == [file |-> file, fs |-> fs, unix |-> unixUsers, smb |-> smbUsers, en |-> smbEnabled]

Alice == <<"alice">>
Bob == <<"bob">>
Carol == <<"carol">>

\* user names that do not match ^[a-zA-Z0-9_-]{1,32}$: empty, "..", 33 letters,
\* "alice/x", "al ice"
BadUsernames == {<<>>, <<"..">>, <<"a33">>, <<"alice", "/", "x">>, <<"al", SP, "ice">>}

HomeOf(u) == PathJoin(HomeDir, u)

\* the world with the accounts P provisioned as a successful CreateUser leaves them,
\* and the home directories of D left behind by calls that failed
Stranded(P, D) ==
    /\ fs = {HomeDir, <<"/", "home">>, <<"/">>} \cup {HomeOf(u) : u \in P \cup D}
    /\ unixUsers = P
    /\ smbUsers = P
    /\ smbEnabled = P

Provisioned(P) == Stranded(P, {})

\* the run is followed up to its first failed call
Proceeding == last.err = NilErr

\* the call returns res: the world is as it left it, last is the call and its result
Apply(R, call) ==
    \E res \in {R} :
        /\ file' = res.file
        /\ fs' = res.fs
        /\ unixUsers' = res.unix
        /\ smbUsers' = res.smb
        /\ smbEnabled' = res.en
        /\ last' = [call EXCEPT !.err = res.err, !.id = res.id, !.cmds = res.cmds,
                                !.pre = World]
        /\ UNCHANGED <<queueVars, callVars, backup, mu, now>>

Call(op, username, share, deleteHomeDir, failAt) ==
    [op |-> op, username |-> username, share |-> share, deleteHomeDir |-> deleteHomeDir,
     failAt |-> failAt, err |-> NilErr, id |-> <<>>, cmds |-> <<>>, pre |-> World]

NoShareArg == [Name |-> <<>>, Owner |-> <<>>, SharedWith |-> <<>>, ReadOnly |-> FALSE,
               Comment |-> <<>>, SubPath |-> <<>>]

\* UserHandler.CreateUser's task: h.service.CreateUser(user)
DoCreateUser(username, failAt, rollbackOK) ==
    Apply(CreateUser(World, [Username |-> username], failAt, rollbackOK),
          Call("CreateUser", username, NoShareArg, FALSE, failAt)
              @@ [rollbackOK |-> rollbackOK])

\* UserHandler.DeleteUser's task: h.service.DeleteUser(username, req.DeleteHomeDir)
DoDeleteUser(username, deleteHomeDir, failAt) ==
    Apply(DeleteUser(World, username, deleteHomeDir, failAt),
          Call("DeleteUser", username, NoShareArg, deleteHomeDir, failAt))

\* ShareHandler.CreateShare's task: h.service.CreateShare(share)
DoCreateShare(share, failAt) ==
    /\ Len(parseSharesFromContent(file)) < MaxShares
    /\ Apply(CreateShare(World, share, now, failAt),
             Call("CreateShare", share.Owner, share, FALSE, failAt))

\* a second passes
Tick ==
    /\ now < MaxClock
    /\ now' = now + 1
    /\ UNCHANGED <<queueVars, callVars, file, backup, mu, fs, unixUsers, smbUsers,
                   smbEnabled, last>>

Share(name, owner, sharedWith, readOnly, comment, subPath) ==
    [Name |-> name, Owner |-> owner, SharedWith |-> sharedWith, ReadOnly |-> readOnly,
     Comment |-> comment, SubPath |-> subPath]

\* the CreateShare requests of the model
ShareReqs ==
    { Share(<<"1">>, Alice, <<Bob>>, FALSE, <<>>, <<>>),
      Share(<<"1">>, Bob, <<Alice, Carol>>, TRUE, <<"note">>, <<"sub">>),
      Share(<<"2">>, Bob, <<Alice>>, FALSE, <<>>, <<>>),
      Share(<<>>, Bob, <<Alice>>, FALSE, <<>>, <<>>),
      Share(<<>>, Bob, <<Carol>>, TRUE, <<"note">>, <<"a", "/", ".", "/", "b">>) }

\* an operator-authored smb.conf: a comment, [global], [homes], a foreign section
BaseDoc ==
    Join(<< <<"#", SP, "note">>,
            <<"[", "global", "]">>,
            <<SP, SP, SP, "workgroup", SP, "=", SP, "WORKGROUP">>,
            <<SP, SP, SP, "security", SP, "=", SP, "user">>,
            <<>>,
            <<"[", "homes", "]">>,
            <<SP, SP, SP, "browseable", SP, "=", SP, "no">>,
            <<SP, SP, SP, "valid", SP, "users", SP, "=", SP, "alice">>,
            <<"[", "printers", "]">>,
            <<SP, SP, SP, "comment", SP, "=", SP, "x">> >>, <<NL>>) \o <<NL>>

IdleQueue ==
    /\ QueueInit
    /\ last = NoCall
    /\ req = [c \in Callers |-> [kind |-> "task", route |-> "queue", mode |-> "SubmitSync"]]

InitUser ==
    /\ IdleQueue
    /\ file \in {EmptyDoc, BaseDoc \o buildShareConfig(<<"bob", "-share-", "1">>,
                     Share(<<"1">>, Bob, <<Alice, Carol>>, TRUE, <<>>, <<>>))}
    /\ \E P \in SUBSET {Alice, Bob}, D \in SUBSET {Carol} : Stranded(P, D)

\* the outcomes of the environment that make a difference to the call
CreateUserFates(u) ==
    IF u \in BadUsernames THEN {<<"none", TRUE>>}
    ELSE {<<f, TRUE>> : f \in CreateUserFailures}
         \cup {<<f, FALSE>> : f \in {"pipe", "wait", "enable"}}
DeleteUserFates(d) == IF d THEN DeleteUserFailures ELSE DeleteUserFailures \ {"rm"}
CreateShareFates(sh) ==
    IF sh.SubPath = <<>> THEN {"none", "read", "write", "reload"} ELSE CreateShareFailures

NextUser ==
    \/ \E u \in {Alice, Carol} \cup BadUsernames :
           \E fate \in CreateUserFates(u) :
               Proceeding /\ DoCreateUser(u, fate[1], fate[2])
    \/ \E u \in {Alice, <<"..">>}, d \in BOOLEAN :
           \E f \in DeleteUserFates(d) : Proceeding /\ DoDeleteUser(u, d, f)

\* provisioning and deprovisioning calls in any order, with any tool failing
SpecUser == InitUser /\ [][NextUser]_vars

InitShare ==
    /\ IdleQueue
    /\ file = BaseDoc
    /\ Provisioned({Alice, Bob, Carol})

NextShare ==
    \/ \E sh \in ShareReqs :
           \E f \in CreateShareFates(sh) : Proceeding /\ DoCreateShare(sh, f)
    \/ \E d \in BOOLEAN :
           \E f \in DeleteUserFates(d) : Proceeding /\ DoDeleteUser(Alice, d, f)
    \/ Proceeding /\ Tick

\* share creation and deprovisioning calls in any order, with any tool failing
SpecShare == InitShare /\ [][NextShare]_vars

(***************************************************************************)
(* Claims about the queue, checked under SpecQueue.                        *)
(***************************************************************************)
AcceptedSet == {accepted[i] : i \in 1 .. Len(accepted)}

\* C1: with the one worker main builds, at most one submitted task is executing at any
\* moment: no task starts while another one has started and not yet returned.
C1_OneTaskAtATime ==
    Cardinality({c \in Callers : UsesQueue(req[c]) /\ Executing(c)}) <= 1

\* a task is executing while another accepted task waits in the channel
C1_Witness ==
    \E c \in Callers : Executing(c) /\ tasks # <<>>

\* C3: tasks execute in submission order: if A was accepted before B, A has finished
\* before B starts.
C3_SubmissionOrder ==
    \A i, j \in 1 .. Len(accepted) :
        (i < j /\ Started(accepted[j])) => Finished(accepted[i])

\* three tasks were accepted and the last accepted one has run
C3_Witness ==
    /\ Len(accepted) >= 3
    /\ Finished(accepted[3])

\* C4 (as claimed): every accepted task is eventually executed to completion, also when
\* Shutdown is called while it waits in the queue. Once every worker has exited nothing
\* executes a task any more, so then every accepted task must already have finished.
C4_AcceptedTaskRuns ==
    (\A w \in Workers : wpc[w] = "exited") =>
        (\A i \in 1 .. Len(accepted) : Finished(accepted[i]))

\* C5 (as claimed): a Submit or SubmitSync racing with or following Shutdown enqueues
\* its task or returns the context-cancelled error; it never panics on the closed channel.
C5_SubmitNeverPanics ==
    \A c \in Callers : cpc[c] # "panicked"

\* C6 (as claimed): SubmitSync returns only after the worker finished the caller's own
\* task, and returns exactly what that task returned.
C6_SyncReturnsOwnResult ==
    \A c \in Callers :
        (IsSync(req[c]) /\ cpc[c] = "returned") =>
            (Finished(c) /\ ret[c] = tres[c])

\* C6 (amended): a SubmitSync whose task was accepted returns only after the worker
\* finished that task and returns exactly that task's result; a SubmitSync whose
\* submission was rejected returns the context error and its task has not run.
C6_AcceptedSyncReturnsOwnResult ==
    \A c \in Callers :
        (IsSync(req[c]) /\ cpc[c] = "returned") =>
            IF c \in AcceptedSet
            THEN Finished(c) /\ ret[c] = tres[c]
            ELSE ~Started(c) /\ ret[c] = CtxCanceled

\* two concurrent SubmitSync callers have returned, with different task results
C6_Witness ==
    \E c, d \in Callers :
        /\ IsSync(req[c]) /\ IsSync(req[d])
        /\ cpc[c] = "returned" /\ cpc[d] = "returned"
        /\ c \in AcceptedSet /\ d \in AcceptedSet
        /\ ret[c] = NilErr /\ ret[d] = TaskErr

(***************************************************************************)
(* Claims about provisioning, checked under SpecUser.                      *)
(***************************************************************************)
\* the username of the last call had no home directory and no account before it
FreshBefore ==
    /\ HomeOf(last.username) \notin last.pre.fs
    /\ last.username \notin last.pre.unix
    /\ last.username \notin last.pre.smb

\* C8: whenever CreateUser returns an error at a step after the username
\* validation, neither the home directory the call created nor a Unix or Samba
\* account of that username exists after the call.
C8_AllOrNothing ==
    (/\ last.op = "CreateUser"
     /\ last.err \notin {NilErr, ErrInvalidUsername}
     /\ FreshBefore)
    => /\ HomeOf(last.username) \notin fs
       /\ last.username \notin unixUsers
       /\ last.username \notin smbUsers

\* C9: CreateUser with a username that does not match ^[a-zA-Z0-9_-]{1,32}$
\* returns the validation error, creates no directory and invokes no tool.
C9_InvalidUsernameNoSideEffect ==
    (last.op = "CreateUser" /\ last.username \in BadUsernames)
    => /\ last.err = ErrInvalidUsername
       /\ last.cmds = <<>>
       /\ World = last.pre

C9_Witness ==
    /\ last.op = "CreateUser"
    /\ last.username = <<"alice", "/", "x">>
    /\ last.err = ErrInvalidUsername
    /\ HomeOf(Alice) \notin fs

(***************************************************************************)
(* Claims about deprovisioning, checked under SpecShare.                   *)
(***************************************************************************)
Involves(share, username) == share.Owner = username \/ contains(share.SharedWith, username)

\* C10: after a successful DeleteUser(u) every share owned by u is gone; a
\* share of another owner that listed u has u removed if other users remain
\* and is gone if u was its only entry; no remaining share lists u or has an
\* empty list because of the call; shares that do not involve u are unchanged.
C10_DeleteUserPlan ==
    (last.op = "DeleteUser" /\ last.err = NilErr)
    => LET u == last.username
           before == parseSharesFromContent(last.pre.file)
           after == parseSharesFromContent(file)
       IN /\ \A i \in 1 .. Len(after) : ~Involves(after[i], u)
          /\ \A i \in 1 .. Len(before) :
                LET sh == before[i]
                    rest == removeFromSlice(sh.SharedWith, u)
                    same == {j \in 1 .. Len(after) : after[j].ID = sh.ID}
                IN IF sh.Owner = u THEN same = {}
                   ELSE IF ~contains(sh.SharedWith, u)
                   THEN \E j \in same : after[j] = sh
                   ELSE IF rest = <<>> THEN same = {}
                   ELSE \E j \in same : after[j].SharedWith = rest
          /\ \A j \in 1 .. Len(after) :
                after[j].SharedWith = <<>> =>
                    \E i \in 1 .. Len(before) : before[i] = after[j]

(***************************************************************************)
(* ConfigService.UpdateSambaConfig                                         *)
(***************************************************************************)
\* strings.ToLower on the tokens of the model
ToLowerTok(t) ==
    IF t = "WORKGROUP" THEN "workgroup"
    ELSE IF t = "OFFICE" THEN "office"
    ELSE IF t = "Docs" THEN "docs"
    ELSE t
ToLower(s) == [i \in 1 .. Len(s) |-> ToLowerTok(s[i])]

\* strings.ReplaceAll(s, " ", "")
RemoveSpaces(s) == SelectSeq(s, LAMBDA t : t # SP)

NoValue == [value |-> <<>>, ok |-> FALSE]
Value(v) == IF v # <<>> THEN [value |-> v, ok |-> TRUE] ELSE NoValue

\* ConfigService.getGlobalValue; the keys come with their spaces removed
getGlobalValue(cfg, key) ==
    IF key = <<"workgroup">> THEN Value(cfg.Workgroup)
    ELSE IF key = <<"server", "string">> THEN Value(cfg.ServerString)
    ELSE IF key = <<"security">> THEN Value(cfg.Security)
    ELSE IF key = <<"passdb", "backend">> THEN Value(cfg.PassdbBackend)
    ELSE IF key = <<"map", "to", "guest">> THEN Value(cfg.MapToGuest)
    ELSE IF key = <<"access", "based", "share", "enum">>
    THEN Value(cfg.AccessBasedShareEnum)
    ELSE NoValue

\* ConfigService.getHomesValue
getHomesValue(cfg, key) ==
    IF key = <<"comment">> THEN Value(cfg.Comment)
    ELSE IF key \in {<<"browseable">>, <<"browsable">>} THEN Value(cfg.Browseable)
    ELSE IF key \in {<<"writable">>, <<"writeable">>} THEN Value(cfg.Writable)
    ELSE IF key = <<"valid", "users">> THEN Value(cfg.ValidUsers)
    ELSE IF key = <<"force", "user">> THEN Value(cfg.ForceUser)
    ELSE IF key = <<"force", "group">> THEN Value(cfg.ForceGroup)
    ELSE IF key \in {<<"create", "mask">>, <<"create", "mode">>}
    THEN Value(cfg.CreateMask)
    ELSE IF key \in {<<"directory", "mask">>, <<"directory", "mode">>}
    THEN Value(cfg.DirectoryMask)
    ELSE NoValue

NoGlobal == [Workgroup |-> <<>>, ServerString |-> <<>>, Security |-> <<>>,
             PassdbBackend |-> <<>>, MapToGuest |-> <<>>, AccessBasedShareEnum |-> <<>>]
NoHomes == [Comment |-> <<>>, Browseable |-> <<>>, Writable |-> <<>>, ValidUsers |-> <<>>,
            ForceUser |-> <<>>, ForceGroup |-> <<>>, CreateMask |-> <<>>,
            DirectoryMask |-> <<>>]

\* UpdateSambaConfig: fmt.Sprintf("   %s = %s", key, newValue)
FormatLine_ValueOnly(key, newValue) == newValue
FormatLine(key, newValue) == <<SP, SP, SP>> \o key \o <<SP, "=", SP>> \o newValue

\* UpdateSambaConfig: one pass of the scanner loop; st = [lines, currentSection],
\* update = [hasGlobal, Global, hasHomes, Homes], has... for the pointer not being nil
UpdateConfigLine(st, line, update) ==
    LET trimmed == TrimSpace(line)
        keep == [st EXCEPT !.lines = Append(@, line)]
        parts == SplitN2(trimmed, "=")
        key == TrimSpace(parts[1])
        keyLower == ToLower(RemoveSpaces(key))
        global == IF st.currentSection = <<"global">> /\ update.hasGlobal
                  THEN getGlobalValue(update.Global, keyLower) ELSE NoValue
        homes == IF st.currentSection = <<"homes">> /\ update.hasHomes
                 THEN getHomesValue(update.Homes, keyLower) ELSE NoValue
        setTo(v) == FormatLine(key, v)
    IN IF HasPrefix(trimmed, <<"[">>) /\ HasSuffix(trimmed, <<"]">>)
       THEN [lines |-> Append(st.lines, line),
             currentSection |-> ToLower(Trim(trimmed, {"[", "]"}))]
       ELSE IF trimmed = <<>> \/ HasPrefix(trimmed, <<"#">>) \/ HasPrefix(trimmed, <<";">>)
       THEN keep
       ELSE IF ~Contains(trimmed, <<"=">>) THEN keep
       ELSE [st EXCEPT !.lines =
                (IF global.ok THEN Append(@, setTo(global.value)) ELSE @)
                \o (IF homes.ok THEN <<setTo(homes.value)>> ELSE <<>>)
                \o (IF ~global.ok /\ ~homes.ok THEN <<line>> ELSE <<>>)]

RECURSIVE UpdateConfigLines(_, _, _)
\* the scanner loop (st = st has the state of a pass evaluated before the next pass)
UpdateConfigLines(st, lines, update) ==
    IF st = st /\ lines # <<>>
    THEN UpdateConfigLines(UpdateConfigLine(st, Head(lines), update), Tail(lines), update)
    ELSE st

\* UpdateSambaConfig: output := strings.Join(lines, "\n") + "\n"
UpdateSambaConfigOutput(content, update) ==
    Join(UpdateConfigLines([lines |-> <<>>, currentSection |-> <<>>],
                           ScanLines(content), update).lines, <<NL>>) \o <<NL>>

(***************************************************************************)
(* The requests that touch smb.conf, running concurrently: CreateShare     *)
(* submitted to the queue by ShareHandler, UpdateSambaConfig and           *)
(* UpdateSambaConfigFile called by SystemHandler. Every read and every     *)
(* write of smb.conf is a step of its own; system calls and tools succeed, *)
(* except testparm, which may reject what it finds in the file.            *)
(***************************************************************************)
Clients == 1 .. NClients

ErrValidation == "configuration validation failed, reverted to original"

\* the content a raw replace request carries
RawDoc ==
    Join(<< <<"[", "global", "]">>,
            <<SP, SP, SP, "workgroup", SP, "=", SP, "OFFICE">> >>, <<NL>>) \o <<NL>>

\* the requests client c may make
ConfigReqs(c) ==
    { [kind |-> "CreateShare", route |-> "queue", mode |-> "SubmitSync",
       share |-> Share(<< <<"1", "2", "3", "4">>[c] >>, Bob, <<Alice>>, FALSE, <<>>, <<>>)],
      [kind |-> "CreateShare", route |-> "queue", mode |-> "SubmitSync",
       share |-> Share(<<>>, Bob, <<Carol>>, TRUE, <<"note">>, <<>>)],
      [kind |-> "UpdateSambaConfig", route |-> "direct", mode |-> "call",
       update |-> [hasGlobal |-> TRUE,
                   Global |-> [NoGlobal EXCEPT !.Workgroup = <<"OFFICE">>],
                   hasHomes |-> TRUE,
                   Homes |-> [NoHomes EXCEPT !.ValidUsers = <<"bob">>]]],
      [kind |-> "UpdateSambaConfigFile", route |-> "direct", mode |-> "call",
       content |-> RawDoc] }

NoReq == [kind |-> "none", route |-> "none", mode |-> "none"]

\* ShareHandler.CreateShare's task, SambaService.CreateShare from s.mu.Lock() to
\* os.ReadFile(smbConfPath): validation, the owner's home, the subdirectory, the read
CreateShareRead(c) ==
    /\ req[c].kind = "CreateShare"
    /\ opc[c] = "start"
    /\ mu = 0
    /\ LET R == CreateSharePrepare(World, req[c].share, "none")
       IN /\ fs' = R.fs
          /\ IF R.err # NilErr
             THEN /\ tres' = [tres EXCEPT ![c] = R.err]
                  /\ opc' = [opc EXCEPT ![c] = "ret"]
                  /\ UNCHANGED <<mu, loc>>
             ELSE /\ loc' = [loc EXCEPT ![c] = file]
                  /\ mu' = c
                  /\ opc' = [opc EXCEPT ![c] = "read"]
                  /\ tres' = tres
    /\ UNCHANGED <<queueVars, req, cpc, done, ret, accepted>>
    /\ UNCHANGED <<file, backup, unixUsers, smbUsers, smbEnabled, now, last>>

\* SambaService.CreateShare from the conflict check to the return: the append, the
\* os.WriteFile, the reload, the deferred s.mu.Unlock()
CreateShareWrite(c) ==
    /\ req[c].kind = "CreateShare"
    /\ opc[c] = "read"
    /\ LET R == CreateShareCommit(Begin(World), loc[c], req[c].share, now, "none")
       IN /\ file' = R.file
          /\ tres' = [tres EXCEPT ![c] = R.err]
    /\ mu' = 0
    /\ opc' = [opc EXCEPT ![c] = "ret"]
    /\ UNCHANGED <<queueVars, req, cpc, done, ret, accepted, loc>>
    /\ UNCHANGED <<backup, fs, unixUsers, smbUsers, smbEnabled, now, last>>

\* SystemHandler.UpdateSambaConfig calls the service on the request's goroutine;
\* ConfigService.UpdateSambaConfig: os.Open and the scanner loop
UpdateSambaConfigRead(c) ==
    /\ req[c].kind = "UpdateSambaConfig"
    /\ cpc[c] = "idle"
    /\ loc' = [loc EXCEPT ![c] = file]
    /\ cpc' = [cpc EXCEPT ![c] = "read"]
    /\ UNCHANGED <<queueVars, req, done, ret, accepted, opc, tres, storeVars, last>>

\* ConfigService.UpdateSambaConfig: os.WriteFile(smbConfPath, output), reload, return
UpdateSambaConfigWrite(c) ==
    /\ req[c].kind = "UpdateSambaConfig"
    /\ cpc[c] = "read"
    /\ file' = UpdateSambaConfigOutput(loc[c], req[c].update)
    /\ cpc' = [cpc EXCEPT ![c] = "returned"]
    /\ ret' = [ret EXCEPT ![c] = NilErr]
    /\ UNCHANGED <<queueVars, req, done, accepted, opc, tres, loc>>
    /\ UNCHANGED <<backup, mu, fs, unixUsers, smbUsers, smbEnabled, now, last>>

\* SystemHandler.UpdateSambaConfigFile calls the service on the request's goroutine;
\* ConfigService.UpdateSambaConfigFile: originalContent := os.ReadFile(smbConfPath)
UpdateSambaConfigFileRead(c) ==
    /\ req[c].kind = "UpdateSambaConfigFile"
    /\ cpc[c] = "idle"
    /\ loc' = [loc EXCEPT ![c] = file]
    /\ cpc' = [cpc EXCEPT ![c] = "read"]
    /\ UNCHANGED <<queueVars, req, done, ret, accepted, opc, tres, storeVars, last>>

\* UpdateSambaConfigFile: os.WriteFile(backupPath, originalContent)
UpdateSambaConfigFileBackup(c) ==
    /\ req[c].kind = "UpdateSambaConfigFile"
    /\ cpc[c] = "read"
    /\ backup' = loc[c]
    /\ cpc' = [cpc EXCEPT ![c] = "backedup"]
    /\ UNCHANGED <<queueVars, req, done, ret, accepted, opc, tres, loc>>
    /\ UNCHANGED <<file, mu, fs, unixUsers, smbUsers, smbEnabled, now, last>>

\* UpdateSambaConfigFile: os.WriteFile(smbConfPath, req.Content)
UpdateSambaConfigFileWrite(c) ==
    /\ req[c].kind = "UpdateSambaConfigFile"
    /\ cpc[c] = "backedup"
    /\ file' = req[c].content
    /\ cpc' = [cpc EXCEPT ![c] = "written"]
    /\ UNCHANGED <<queueVars, req, done, ret, accepted, opc, tres, loc>>
    /\ UNCHANGED <<backup, mu, fs, unixUsers, smbUsers, smbEnabled, now, last>>

\* UpdateSambaConfigFile: ValidateSambaConfig(smbConfPath), testparm on the file as it
\* is on disk; accepted: os.Remove(backupPath), reload, return nil
UpdateSambaConfigFileValidate(c) ==
    /\ req[c].kind = "UpdateSambaConfigFile"
    /\ cpc[c] = "written"
    /\ \E valid \in BOOLEAN :
          IF valid
          THEN /\ backup' = "none"
               /\ cpc' = [cpc EXCEPT ![c] = "returned"]
               /\ ret' = [ret EXCEPT ![c] = NilErr]
          ELSE /\ cpc' = [cpc EXCEPT ![c] = "invalid"]
               /\ UNCHANGED <<backup, ret>>
    /\ UNCHANGED <<queueVars, req, done, accepted, opc, tres, loc>>
    /\ UNCHANGED <<file, mu, fs, unixUsers, smbUsers, smbEnabled, now, last>>

\* UpdateSambaConfigFile, validation failed: os.WriteFile(smbConfPath,
\* originalContent), os.Remove(backupPath), return the validation error
UpdateSambaConfigFileRevert(c) ==
    /\ req[c].kind = "UpdateSambaConfigFile"
    /\ cpc[c] = "invalid"
    /\ file' = loc[c]
    /\ backup' = "none"
    /\ cpc' = [cpc EXCEPT ![c] = "returned"]
    /\ ret' = [ret EXCEPT ![c] = ErrValidation]
    /\ UNCHANGED <<queueVars, req, done, accepted, opc, tres, loc>>
    /\ UNCHANGED <<mu, fs, unixUsers, smbUsers, smbEnabled, now, last>>

InitConfig ==
    /\ QueueInit
    /\ req \in [Callers -> UNION {ConfigReqs(c) : c \in Clients} \cup {NoReq}]
    /\ \A c \in Callers : IF c \in Clients THEN req[c] \in ConfigReqs(c) ELSE req[c] = NoReq
    /\ file \in {EmptyDoc, BaseDoc}
    /\ Provisioned({Alice, Bob, Carol})
    /\ last = [op |-> "none", err |-> NilErr, pre |-> World]

NextConfig ==
    \/ \E c \in Clients : SubmitSend(c)
    \/ \E c \in Clients : SubmitSyncReturn(c)
    \/ \E w \in Workers : WorkerReceive(w)
    \/ \E w \in Workers : WorkerFinish(w)
    \/ \E c \in Clients : CreateShareRead(c)
    \/ \E c \in Clients : CreateShareWrite(c)
    \/ \E c \in Clients : UpdateSambaConfigRead(c)
    \/ \E c \in Clients : UpdateSambaConfigWrite(c)
    \/ \E c \in Clients : UpdateSambaConfigFileRead(c)
    \/ \E c \in Clients : UpdateSambaConfigFileBackup(c)
    \/ \E c \in Clients : UpdateSambaConfigFileWrite(c)
    \/ \E c \in Clients : UpdateSambaConfigFileValidate(c)
    \/ \E c \in Clients : UpdateSambaConfigFileRevert(c)

\* the requests of all clients, interleaved in every way, while the queue runs
SpecConfig == InitConfig /\ [][NextConfig]_vars

(***************************************************************************)
(* Claims about the writers of smb.conf, checked under SpecConfig.         *)
(***************************************************************************)
\* client c has read smb.conf and will write it from what it read, or has written
\* it and may yet write it back
Writing(c) ==
    \/ req[c].kind = "CreateShare" /\ opc[c] = "read"
    \/ req[c].kind = "UpdateSambaConfig" /\ cpc[c] = "read"
    \/ req[c].kind = "UpdateSambaConfigFile"
       /\ cpc[c] \in {"read", "backedup", "written", "invalid"}

InWorker(c) == \E w \in Workers : wpc[w] = "running" /\ wcur[w] = c

\* C2: every write of smb.conf happens inside a task the queue's worker is
\* executing, UpdateSambaConfig and UpdateSambaConfigFile included, so no two
\* writers of the file are active at the same time.
C2_WritesOnlyInWorker ==
    /\ \A c \in Clients : Writing(c) => InWorker(c)
    /\ Cardinality({c \in Clients : Writing(c)}) <= 1

\* the clients whose CreateShare succeeded, in the order the queue accepted them
Created == SelectSeq(accepted, LAMBDA c : tres[c] = NilErr)

\* the section CreateShare writes for client c's request
SectionOf(c) == buildShareConfig(ShareName(req[c].share, now), req[c].share)

AllCreateShare ==
    /\ last.pre.file = EmptyDoc
    /\ \A c \in Clients : req[c].kind = "CreateShare"
    /\ \A c \in Clients : cpc[c] = "returned"

\* C7: when all the concurrent requests are CreateShare calls submitted through
\* the queue against an empty document, then after they have returned the
\* document is the sections of the successful calls one after the other, each
\* complete and as its own call wrote it, and it parses into as many shares.
C7_OneSectionPerCreateShare ==
    AllCreateShare
    => /\ file = Concat([i \in 1 .. Len(Created) |-> SectionOf(Created[i])])
       /\ Len(parseSharesFromContent(file)) = Len(Created)

\* every client created a share, one with a custom name and one named by the time
C7_Witness ==
    /\ AllCreateShare
    /\ \A c \in Clients : ret[c] = NilErr
    /\ Len(parseSharesFromContent(file)) = NClients
    /\ \E c, d \in Clients : c # d /\ req[c].share.Name # <<>> /\ req[d].share.Name = <<>>


(***************************************************************************)
(* SambaService.DeleteShare and UpdateShare, and the handlers of the       *)
(* admin routes (ShareHandler) and of the user routes (UserShareHandler).  *)
(***************************************************************************)
ErrInvalidShareID == "invalid share ID format"
NotFoundError == "Share not found"
ForbiddenError == "You can only update or delete your own shares"

DeleteShareFailures == {"none", "read", "write", "reload"}

\* DeleteShare: if newContent == string(content), the share was not found
Unmodified(newContent, content) == newContent = content

\* SambaService.DeleteShare
DeleteShare(S, shareName, failAt) ==
    LET R0 == Ran(Begin(S), <<"ReadFile">>)
        newContent == modifySharesInContent(S.file, {shareName}, EmptyMap)
    IN IF failAt = "read" THEN Fail(R0, ErrIO)
       ELSE IF Unmodified(newContent, S.file) THEN Fail(R0, ErrNotFound)
       ELSE IF failAt = "write" THEN Fail(Ran(R0, <<"WriteFile">>), ErrIO)
       ELSE [Reload(Ran(R0, <<"WriteFile">>), failAt) EXCEPT !.file = newContent]

UpdateShareFailures == {"none", "mkdir", "chown", "chmod", "read", "write", "reload"}

\* UpdateShare: os.MkdirAll, chown and chmod of the subdirectory fullSubPath
UpdateShareSubPath(R0, fullSubPath, failAt) ==
    IF failAt = "mkdir" THEN Fail(Ran(R0, <<"MkdirAll", fullSubPath>>), ErrIO)
    ELSE IF failAt = "chown"
    THEN Fail(Ran([Ran(R0, <<"MkdirAll", fullSubPath>>) EXCEPT !.fs = MkdirAll(@, fullSubPath)],
                  <<"chown", fullSubPath>>), ErrTool)
    ELSE IF failAt = "chmod"
    THEN Fail(Ran(Ran([Ran(R0, <<"MkdirAll", fullSubPath>>)
                          EXCEPT !.fs = MkdirAll(@, fullSubPath)],
                      <<"chown", fullSubPath>>), <<"chmod", fullSubPath>>), ErrTool)
    ELSE Ran(Ran([Ran(R0, <<"MkdirAll", fullSubPath>>) EXCEPT !.fs = MkdirAll(@, fullSubPath)],
                 <<"chown", fullSubPath>>), <<"chmod", fullSubPath>>)

\* UpdateShare: if share.SubPath != "", with sub the cleaned subpath; R0 is the call
\* after the os.Stat of ownerHome
UpdateShareInHome(R0, ownerHome, sub, share, failAt) ==
    IF share.SubPath = <<>> THEN R0
    ELSE IF sub.err # NilErr THEN Fail(R0, sub.err)
    ELSE IF sub.path = <<>> THEN R0
    ELSE UpdateShareSubPath(R0, PathJoin(ownerHome, sub.path), failAt)

\* SambaService.UpdateShare up to the read of smb.conf: validation, the owner's home,
\* the subdirectory. The result has err = NilErr when the call goes on to the read.
UpdateSharePrepare(S, shareId, share, failAt) ==
    LET ownerHome == PathJoin(HomeDir, share.Owner)
    IN IF ~sharePatternMatch(shareId) THEN Fail(Begin(S), ErrInvalidShareID)
       ELSE IF Len(share.SharedWith) = 0 THEN Fail(Begin(S), ErrNoSharedWith)
       ELSE IF \E i \in 1 .. Len(share.SharedWith) : ~isValidUsername(share.SharedWith[i])
       THEN Fail(Begin(S), ErrInvalidSharedWith)
       ELSE IF ownerHome \notin S.fs
       THEN Fail(Ran(Begin(S), <<"Stat", ownerHome>>), ErrNoOwnerHome)
       ELSE UpdateShareInHome(Ran(Begin(S), <<"Stat", ownerHome>>), ownerHome,
                              cleanSubPath(share.SubPath), share, failAt)

\* UpdateShare from the read of smb.conf on; R is the call so far
UpdateShareWrite(R, S, shareId, share, failAt) ==
    IF R.err # NilErr THEN R
    ELSE IF failAt = "read" THEN Fail(Ran(R, <<"ReadFile">>), ErrIO)
    ELSE IF failAt = "write" THEN Fail(Ran(Ran(R, <<"ReadFile">>), <<"WriteFile">>), ErrIO)
    ELSE [Reload(Ran(Ran(R, <<"ReadFile">>), <<"WriteFile">>), failAt)
             EXCEPT !.file = modifySharesInContent(S.file, {}, MapPut(EmptyMap, shareId, share))]

\* SambaService.UpdateShare
UpdateShare(S, shareId, share, failAt) ==
    UpdateShareWrite(UpdateSharePrepare(S, shareId, share, failAt), S, shareId, share, failAt)

\* ShareHandler.UpdateShare and UserShareHandler.UpdateMyShare: the types.Share built
\* from types.UpdateShareRequest; Name and Owner are not set
ShareOfUpdate(r) ==
    [Name |-> <<>>, Owner |-> <<>>, SharedWith |-> r.SharedWith, ReadOnly |-> r.ReadOnly,
     Comment |-> r.Comment, SubPath |-> r.SubPath]

\* ShareHandler.UpdateShare's task
AdminUpdateShare(S, shareId, r, failAt) == UpdateShare(S, shareId, ShareOfUpdate(r), failAt)

\* ShareHandler.DeleteShare's task
AdminDeleteShare(S, shareId, failAt) == DeleteShare(S, shareId, failAt)

\* UpdateMyShare / DeleteMyShare: the loop that looks shareId up in ListShares' result
TargetShares(shares, shareId) == SelectSeq(shares, LAMBDA sh : sh.ID = shareId)

\* UpdateMyShare / DeleteMyShare: targetShare.Owner != username
AnyOwner(targetShare, username) == FALSE
NotOwner(targetShare, username) == targetShare.Owner # username

\* the service call of a user route, run after ListShares has read smb.conf
AfterList(R) == [R EXCEPT !.cmds = << <<"ReadFile">> >> \o @]

\* UserShareHandler.UpdateMyShare's task
UpdateMyShare(S, username, shareId, r, failAt) ==
    LET found == TargetShares(parseSharesFromContent(S.file), shareId)
        R0 == Ran(Begin(S), <<"ReadFile">>)
    IN IF failAt = "list" THEN Fail(R0, ErrIO)
       ELSE IF found = <<>> THEN Fail(R0, NotFoundError)
       ELSE IF NotOwner(found[1], username) THEN Fail(R0, ForbiddenError)
       ELSE AfterList(UpdateShare(S, shareId, ShareOfUpdate(r), failAt))

\* UserShareHandler.DeleteMyShare's task
DeleteMyShare(S, username, shareId, failAt) ==
    LET found == TargetShares(parseSharesFromContent(S.file), shareId)
        R0 == Ran(Begin(S), <<"ReadFile">>)
    IN IF failAt = "list" THEN Fail(R0, ErrIO)
       ELSE IF found = <<>> THEN Fail(R0, NotFoundError)
       ELSE IF NotOwner(found[1], username) THEN Fail(R0, ForbiddenError)
       ELSE AfterList(DeleteShare(S, shareId, failAt))

\* the response of a user route: ResponseNotFound, ResponseForbidden,
\* ResponseInternalServerError or success
Response(err) ==
    IF err = NilErr THEN 200
    ELSE IF err = NotFoundError THEN 404
    ELSE IF err = ForbiddenError THEN 403
    ELSE 500

(***************************************************************************)
(* ConfigService.UpdateSambaConfig and UpdateSambaConfigFile as single     *)
(* calls; the result carries the backup file as well.                      *)
(***************************************************************************)
ErrRevert == "validation failed and revert failed"

UpdateSambaConfigFailures == {"none", "read", "write", "reload"}

\* ConfigService.UpdateSambaConfig
UpdateSambaConfig(S, update, failAt) ==
    LET R0 == Ran(Begin(S), <<"Open">>)
        output == UpdateSambaConfigOutput(S.file, update)
    IN IF failAt = "read" THEN Fail(R0, ErrIO)
       ELSE IF failAt = "write" THEN Fail(Ran(R0, <<"WriteFile">>), ErrIO)
       ELSE [Reload(Ran(R0, <<"WriteFile">>), failAt) EXCEPT !.file = output]

UpdateSambaConfigFileFailures == {"none", "read", "backup", "write", "revert", "reload"}

\* ConfigService.UpdateSambaConfigFile; valid is testparm's verdict on the content,
\* the result is the pair of the service result and the backup file
UpdateSambaConfigFile(S, bak, content, valid, failAt) ==
    LET originalContent == S.file
        R1 == Ran(Begin(S), <<"ReadFile">>)
        R2 == Ran(R1, <<"WriteFile", "backup">>)
        R3 == Ran(R2, <<"WriteFile">>)
        R4 == Ran([R3 EXCEPT !.file = content], <<"testparm">>)
        R5 == Ran(R4, <<"WriteFile">>)
        R6 == Ran([R5 EXCEPT !.file = originalContent], <<"Remove", "backup">>)
    IN IF failAt = "read" THEN <<Fail(R1, ErrIO), bak>>
       ELSE IF failAt = "backup" THEN <<Fail(R2, ErrIO), bak>>
       ELSE IF failAt = "write" THEN <<Fail(R3, ErrIO), originalContent>>
       ELSE IF ~valid
       THEN IF failAt = "revert" THEN <<Fail(R5, ErrRevert), originalContent>>
            ELSE <<Fail(R6, ErrValidation), "none">>
       ELSE <<Reload(Ran(R4, <<"Remove", "backup">>), failAt), "none">>

(***************************************************************************)
(* Calls that rewrite smb.conf, made one after the other.                  *)
(***************************************************************************)
MaxLines == 3

\* the lines of the texts: headers, key = value lines as written by hand, a comment
\* that mentions a share, a blank line
TextLines ==
    { <<"[", "global", "]">>,
      <<"[", "homes", "]">>,
      <<"[", "bob", "-share-", "1", "]">>,
      <<SP, SP, SP, "workgroup", SP, "=", SP, "WORKGROUP">>,
      <<"workgroup", "=", "WORKGROUP">>,
      <<"\t", "comment", SP, "=", SP, "x">>,
      <<"#", SP, "[", "bob", "-share-", "1", "]">>,
      <<>> }

\* sequences of at most n lines
LinesUpTo(n) == UNION {[1 .. k -> TextLines] : k \in 0 .. n}

\* the texts of at most MaxLines lines, with and without the final line break
Texts ==
    {Join(ls, <<NL>>) : ls \in LinesUpTo(MaxLines)}
    \cup {Join(ls, <<NL>>) \o <<NL>> : ls \in LinesUpTo(MaxLines)}

BobShare1 == <<"bob", "-share-", "1">>
AliceShare1 == <<"alice", "-share-", "1">>

\* smb.conf as CreateShare calls have left it: BaseDoc and the shares of bob and alice
ShareDoc ==
    BaseDoc
    \o buildShareConfig(BobShare1, Share(<<"1">>, Bob, <<Alice, Carol>>, TRUE, <<>>, <<>>))
    \o buildShareConfig(AliceShare1, Share(<<"1">>, Alice, <<Bob>>, FALSE, <<>>, <<"sub">>))

\* the share ids callers pass: two shares, an operator's section, no section
ShareIds == {BobShare1, AliceShare1, <<"global">>, <<"carol", "-share-", "x">>}

\* the update requests callers make
UpdateReqs ==
    { [SharedWith |-> <<Carol>>, ReadOnly |-> FALSE, Comment |-> <<>>, SubPath |-> <<>>],
      [SharedWith |-> <<Alice>>, ReadOnly |-> TRUE, Comment |-> <<"note">>,
       SubPath |-> <<"bob", "/", "sub">>] }

\* the structured updates callers make: none, [global] only, both sections
ConfigUpdates ==
    { [hasGlobal |-> FALSE, Global |-> NoGlobal, hasHomes |-> FALSE, Homes |-> NoHomes],
      [hasGlobal |-> TRUE, Global |-> NoGlobal, hasHomes |-> TRUE, Homes |-> NoHomes],
      [hasGlobal |-> TRUE, Global |-> [NoGlobal EXCEPT !.Workgroup = <<"OFFICE">>],
       hasHomes |-> FALSE, Homes |-> NoHomes],
      [hasGlobal |-> TRUE, Global |-> [NoGlobal EXCEPT !.Workgroup = <<"OFFICE">>],
       hasHomes |-> TRUE, Homes |-> [NoHomes EXCEPT !.Comment = <<"note">>]] }

EditCall(op, username, shareId, r, failAt) ==
    [op |-> op, username |-> username, shareId |-> shareId, r |-> r, failAt |-> failAt,
     err |-> NilErr, id |-> <<>>, cmds |-> <<>>, pre |-> World]

NoUpdateReq == [SharedWith |-> <<>>, ReadOnly |-> FALSE, Comment |-> <<>>, SubPath |-> <<>>]

DoAdminUpdateShare(shareId, r, failAt) ==
    Apply(AdminUpdateShare(World, shareId, r, failAt),
          EditCall("UpdateShare", <<>>, shareId, r, failAt))

DoAdminDeleteShare(shareId, failAt) ==
    Apply(AdminDeleteShare(World, shareId, failAt),
          EditCall("DeleteShare", <<>>, shareId, NoUpdateReq, failAt))

DoUpdateMyShare(username, shareId, r, failAt) ==
    Apply(UpdateMyShare(World, username, shareId, r, failAt),
          EditCall("UpdateMyShare", username, shareId, r, failAt))

DoDeleteMyShare(username, shareId, failAt) ==
    Apply(DeleteMyShare(World, username, shareId, failAt),
          EditCall("DeleteMyShare", username, shareId, NoUpdateReq, failAt))

\* SystemHandler.UpdateSambaConfig: h.service.UpdateSambaConfig(&req)
DoUpdateSambaConfig(update, failAt) ==
    Apply(UpdateSambaConfig(World, update, failAt),
          [op |-> "UpdateSambaConfig", update |-> update, failAt |-> failAt,
           err |-> NilErr, id |-> <<>>, cmds |-> <<>>, pre |-> World])

\* SystemHandler.UpdateSambaConfigFile: h.service.UpdateSambaConfigFile(&req)
DoUpdateSambaConfigFile(content, valid, failAt) ==
    LET res == UpdateSambaConfigFile(World, backup, content, valid, failAt)
        R == res[1]
    IN /\ file' = R.file
       /\ backup' = res[2]
       /\ last' = [op |-> "UpdateSambaConfigFile", content |-> content, valid |-> valid,
                   failAt |-> failAt, err |-> R.err, id |-> <<>>, cmds |-> R.cmds,
                   pre |-> World]
       /\ UNCHANGED <<queueVars, callVars, mu, fs, unixUsers, smbUsers, smbEnabled, now>>

\* a raw replace content testparm rejects whatever else is true of it
BrokenDoc == <<"[", "global", NL, "workgroup">>

InitEdit ==
    /\ IdleQueue
    /\ file = ShareDoc
    /\ Provisioned({Alice, Bob, Carol})

UpdateShareFates(r) ==
    IF r.SubPath = <<>> THEN {"none", "read", "write", "reload"}
    ELSE {"none", "mkdir", "chown", "chmod"}
UserRouteFates(r) == IF r.SubPath = <<>> THEN {"none", "list"} ELSE {"none"}

\* the ids the callers of SpecEdit pass: bob's share, alice's share, no section
EditIds == {BobShare1, AliceShare1, <<"carol", "-share-", "x">>}

\* the raw replace requests with testparm's verdict on them
RawReqs == {<<RawDoc, TRUE>>, <<BrokenDoc, FALSE>>}

NextEdit ==
    \/ \E id \in EditIds, r \in UpdateReqs :
           \E f \in UpdateShareFates(r) : Proceeding /\ DoAdminUpdateShare(id, r, f)
    \/ \E id \in EditIds, f \in DeleteShareFailures :
           Proceeding /\ DoAdminDeleteShare(id, f)
    \/ \E u \in {Alice, Bob}, id \in EditIds, r \in UpdateReqs :
           \E f \in UserRouteFates(r) : Proceeding /\ DoUpdateMyShare(u, id, r, f)
    \/ \E u \in {Alice, Bob}, id \in EditIds, f \in {"none", "list"} :
           Proceeding /\ DoDeleteMyShare(u, id, f)
    \/ \E f \in {"none", "read", "write"} :
           Proceeding /\ DoCreateShare(Share(<<"2">>, Bob, <<Alice>>, FALSE, <<>>, <<"sub">>), f)

\* the calls that rewrite share sections in any order, with any system call failing
SpecEdit == InitEdit /\ [][NextEdit]_vars

(***************************************************************************)
(* One call that rewrites smb.conf, on a text an operator may have         *)
(* written: the rewriting functions applied to every text of the bound.    *)
(***************************************************************************)
InitText ==
    /\ IdleQueue
    /\ file \in Texts
    /\ Provisioned({Alice, Bob, Carol})

\* no call has been made yet
Fresh == last.op = "none"

NextText ==
    \/ \E id \in ShareIds, r \in UpdateReqs :
           \E f \in UpdateShareFates(r) : Fresh /\ DoAdminUpdateShare(id, r, f)
    \/ \E id \in ShareIds, f \in DeleteShareFailures :
           Fresh /\ DoAdminDeleteShare(id, f)
    \/ \E update \in ConfigUpdates, f \in UpdateSambaConfigFailures :
           Fresh /\ DoUpdateSambaConfig(update, f)
    \/ \E raw \in RawReqs, f \in UpdateSambaConfigFileFailures :
           Fresh /\ DoUpdateSambaConfigFile(raw[1], raw[2], f)
    \/ \E f \in {"none", "read", "write", "reload"} :
           Fresh /\ DoCreateShare(Share(<<"1">>, Bob, <<Alice>>, FALSE, <<>>, <<>>), f)
    \/ \E d \in BOOLEAN, f \in {"none", "write", "userdel", "reload"} :
           Fresh /\ DoDeleteUser(Bob, d, f)

SpecText == InitText /\ [][NextText]_vars

(***************************************************************************)
(* Claims about the calls on share sections, checked under SpecEdit.       *)
(***************************************************************************)
\* path is the directory dir or lies below it
Inside(path, dir) == path = dir \/ HasPrefix(path, dir \o <<"/">>)

\* C12: after any sequence of CreateShare and UpdateShare calls through the
\* admin or the user handlers, the path stored in every share section lies inside
\* the home directory of the owner named in the section header, never at the
\* home root itself and never under another user's home.
C12_PathInsideOwnerHome ==
    LET shares == parseSharesFromContent(file)
    IN \A i \in 1 .. Len(shares) : Inside(shares[i].Path, HomeOf(shares[i].Owner))

\* the last call came through a user route and ListShares could read smb.conf
UserRouteCall ==
    /\ last.op \in {"UpdateMyShare", "DeleteMyShare"}
    /\ last.failAt # "list"

\* the shares with the id of the last call, as ListShares found them before the call
Targets == TargetShares(parseSharesFromContent(last.pre.file), last.shareId)

HasSection(content, id) ==
    \E i \in 1 .. Len(ScanLines(content)) :
        LET line == TrimSpace(ScanLines(content)[i])
        IN IsHeaderLine(line) /\ Trim(line, {"[", "]"}) = id

\* the last call was UpdateSambaConfigFile and testparm rejected its content
Rejected ==
    /\ last.op = "UpdateSambaConfigFile"
    /\ ~last.valid
    /\ \E i \in 1 .. Len(last.cmds) : last.cmds[i] = <<"testparm">>

\* C11: when UpdateSambaConfigFile is given content that fails validation, the
\* call returns the validation-failure error and smb.conf is byte for byte what
\* it was before the call.
C11_RejectedContentReverted ==
    Rejected => last.err = ErrValidation /\ file = last.pre.file


\* the last call was CreateShare with a name, and smb.conf could be read and written
NamedCreateShare ==
    /\ last.op = "CreateShare"
    /\ last.share.Name # <<>>
    /\ last.err # ErrIO

\* C15: CreateShare for owner o with a valid non-empty name n returns the id
\* o-share-n whenever no section [o-share-n] exists, and a CreateShare with the
\* owner and name of an existing section fails with the conflict error and
\* leaves the document unchanged.
C15_NamedShareCreatedOnce ==
    NamedCreateShare =>
        LET id == ShareName(last.share, 0)
        IN IF HasSection(last.pre.file, id)
           THEN last.err = ErrConflict /\ file = last.pre.file
           ELSE last.err = NilErr /\ last.id = id /\ HasSection(file, id)

\* the last call was op, made with no system call failing, for an id that is the
\* header of no section
MissedTarget(op) ==
    /\ last.op = op
    /\ last.failAt = "none"
    /\ ~HasSection(last.pre.file, last.shareId)

\* C16: DeleteShare(id) returns not-found and leaves smb.conf unchanged whenever
\* the document has no section whose header is exactly id, whether or not the
\* document ends with a line break.
C16_DeleteShareNotFound ==
    MissedTarget("DeleteShare") => last.err = ErrNotFound /\ file = last.pre.file

\* C17: UpdateShare(id, fields) returns not-found and leaves smb.conf unchanged
\* whenever no section header is exactly id.
C17_UpdateShareNotFound ==
    (MissedTarget("UpdateShare") /\ sharePatternMatch(last.shareId))
    => last.err = ErrNotFound /\ file = last.pre.file

\* the lines of the sections whose header is not <owner>-share-<suffix>, blank
\* lines apart, one pass: st = [foreign, lines]
ForeignLine(st, line) ==
    LET trimmedLine == TrimSpace(line)
        foreign == IF IsHeaderLine(trimmedLine)
                   THEN ~sharePatternMatch(Trim(trimmedLine, {"[", "]"}))
                   ELSE st.foreign
    IN [foreign |-> foreign,
        lines |-> IF foreign /\ trimmedLine # <<>> THEN Append(st.lines, line)
                  ELSE st.lines]

RECURSIVE ForeignLines(_, _)
ForeignLines(st, lines) ==
    IF st = st /\ lines # <<>>
    THEN ForeignLines(ForeignLine(st, Head(lines)), Tail(lines))
    ELSE st

\* the sections of [global], [homes] and the operator, header and lines, in order
ForeignSections(content) ==
    ForeignLines([foreign |-> FALSE, lines |-> <<>>], ScanLines(content)).lines

\* C18: no share operation (CreateShare, UpdateShare, DeleteShare) removes,
\* reorders or changes the lines of a section whose header does not match
\* <owner>-share-<suffix>, whatever share id the caller passes.
C18_ForeignSectionsKept ==
    last.op \in {"CreateShare", "UpdateShare", "DeleteShare"}
    => ForeignSections(file) = ForeignSections(last.pre.file)

\* the last call rewrote the text with nothing to change: an UpdateShare or
\* DeleteShare whose id no section has, or an UpdateSambaConfig with an empty request
NothingToChange ==
    \/ MissedTarget("DeleteShare")
    \/ MissedTarget("UpdateShare") /\ last.err = NilErr
    \/ /\ last.op = "UpdateSambaConfig"
       /\ last.failAt = "none"
       /\ ~last.update.hasGlobal
       /\ ~last.update.hasHomes

\* C19: on a text of headers, comments, blank lines and key = value lines,
\* modifySharesInContent with no matching target and UpdateSambaConfig with an
\* empty request both give back the input, with its final line break or without.
C19_RewriteRoundTrip ==
    NothingToChange => file = last.pre.file

\* the section line i of lines lies in: the name of the nearest header above it,
\* in lower case
SectionAt(lines, i) ==
    LET hs == {k \in 1 .. (i - 1) : IsHeaderLine(TrimSpace(lines[k]))}
        h == CHOOSE k \in hs : \A j \in hs : j <= k
    IN IF hs = {} THEN <<>> ELSE ToLower(Trim(TrimSpace(lines[h]), {"[", "]"}))

\* the line is a key = value line
IsKeyValue(line) ==
    LET trimmed == TrimSpace(line)
    IN ~IsHeaderLine(trimmed) /\ ~IsSkippedLine(trimmed) /\ Contains(trimmed, <<"=">>)

KeyOf(line) == TrimSpace(SplitN2(TrimSpace(line), "=")[1])

\* the value the request supplies for line i: the line lies in [global] or [homes],
\* its key is a known key of that section and the request has a non-empty value for it
Supplied(lines, i, update) ==
    LET key == ToLower(RemoveSpaces(KeyOf(lines[i])))
    IN IF ~IsKeyValue(lines[i]) THEN NoValue
       ELSE IF SectionAt(lines, i) = <<"global">> /\ update.hasGlobal
       THEN getGlobalValue(update.Global, key)
       ELSE IF SectionAt(lines, i) = <<"homes">> /\ update.hasHomes
       THEN getHomesValue(update.Homes, key)
       ELSE NoValue

\* a key = value line up to where its value begins
UpToValue(line) ==
    LET k == CHOOSE n \in 1 .. Len(line) :
                 line[n] = "=" /\ \A j \in 1 .. (n - 1) : line[j] # "="
        value == TrimLeftSet(SubSeq(line, k + 1, Len(line)), {SP, "\t"})
    IN SubSeq(line, 1, Len(line) - Len(value))

\* the last call was an UpdateSambaConfig that wrote smb.conf
ConfigUpdated == last.op = "UpdateSambaConfig" /\ last.err = NilErr

OnAccount(cmd) ==
    cmd[1] \in {"MkdirAll", "RemoveAll", "chown", "chmod", "useradd", "userdel",
                "smbpasswd -a", "smbpasswd -e", "smbpasswd -x"}

\* C14: no external process is invoked and no filesystem path is built or removed
\* from a username that was not first checked against the username pattern, at
\* every entry point, DeleteUser included.
C14_NoToolOnUncheckedName ==
    (last.op \in {"CreateUser", "DeleteUser"} /\ ~isValidUsername(last.username))
    => \A i \in 1 .. Len(last.cmds) : ~OnAccount(last.cmds[i])

(***************************************************************************)
(* cleanSubPath applied to every subpath of up to MaxSegs path elements.   *)
(***************************************************************************)
MaxSegs == 3

\* the path elements a request may put between separators: names, ".", "..", a
\* name with two dots in it, a name that starts with a backslash, nothing
PathSegs == {<<"a">>, <<"b">>, <<".">>, <<"..">>, <<"a..b">>, <<"\\", "..">>, <<>>}

RECURSIVE SegSeqs(_)
\* the sequences of one to n path elements
SegSeqs(n) ==
    IF n = 0 THEN {}
    ELSE {<<e>> : e \in PathSegs}
         \cup {Append(s, e) : s \in SegSeqs(n - 1), e \in PathSegs}

\* the sub_path values of the requests: relative and absolute-looking
SubPaths ==
    {<<>>} \cup {Join(s, <<"/">>) : s \in SegSeqs(MaxSegs)}
           \cup {<<"/">> \o Join(s, <<"/">>) : s \in SegSeqs(MaxSegs)}

\* cleanSubPath(subPath) called once
DoCleanSubPath(subPath) ==
    /\ last' = [op |-> "cleanSubPath", subPath |-> subPath,
                path |-> cleanSubPath(subPath).path, err |-> cleanSubPath(subPath).err]
    /\ UNCHANGED <<queueVars, callVars, storeVars>>

InitSubPath ==
    /\ IdleQueue
    /\ file = EmptyDoc
    /\ Provisioned({})

NextSubPath == \E subPath \in SubPaths : last.op = "none" /\ DoCleanSubPath(subPath)

SpecSubPath == InitSubPath /\ [][NextSubPath]_vars

(***************************************************************************)
(* Claims about cleanSubPath, checked under SpecSubPath.                   *)
(***************************************************************************)
\* the cleaned subpath with one leading separator stripped
CleanedRelative(subPath) == TrimPrefix(TrimPrefix(Clean(subPath), <<"/">>), <<"\\">>)

\* the path has an element that is exactly ..
HasDotDotSegment(p) == \E i \in 1 .. Len(SplitOn(p, "/")) : SplitOn(p, "/")[i] = <<"..">>

\* C21: cleanSubPath fails with the traversal error exactly when the cleaned
\* path, after a leading separator is stripped, has a path element "..";
\* otherwise it returns the cleaned relative path, the empty string for "" and ".".
C21_TraversalIffDotDotSegment ==
    (last.op = "cleanSubPath" /\ last.subPath # <<>>) =>
        /\ (last.err = ErrTraversal) <=> HasDotDotSegment(CleanedRelative(last.subPath))
        /\ last.err \in {NilErr, ErrTraversal}
        /\ last.err = NilErr =>
               last.path = IF CleanedRelative(last.subPath) = <<".">> THEN <<>>
                           ELSE CleanedRelative(last.subPath)

(***************************************************************************)
(* SambaService.ListUsers and ListOrphanedDirectories (services/orphan.go) *)
(***************************************************************************)
Ghost == <<"ghost">>

RECURSIVE SetToSeq(_)
\* the elements of a finite set in some order
SetToSeq(A) ==
    IF A = {} THEN <<>>
    ELSE LET a == CHOOSE x \in A : TRUE IN <<a>> \o SetToSeq(A \ {a})

\* what pdbedit -L prints: one line username:uid:full name for every account of tdbsam
PdbeditOutput(smb) ==
    Concat([i \in 1 .. Len(SetToSeq(smb)) |-> SetToSeq(smb)[i] \o <<":", "1", ":", NL>>])

RECURSIVE UsersOfLines(_)
\* ListUsers: the loop over the lines of the output
UsersOfLines(lines) ==
    IF lines = <<>> THEN <<>>
    ELSE IF Head(lines) = <<>> THEN UsersOfLines(Tail(lines))
    ELSE << [Username |-> SplitOn(Head(lines), ":")[1],
             HomeDir |-> PathJoin(HomeDir, SplitOn(Head(lines), ":")[1])] >>
         \o UsersOfLines(Tail(lines))

ListFailures == {"none", "pdbedit", "readdir"}

\* SambaService.ListUsers: [users, err]
ListUsers(S, failAt) ==
    IF failAt = "pdbedit" THEN [users |-> <<>>, err |-> ErrTool]
    ELSE [users |-> UsersOfLines(SplitOn(PdbeditOutput(S.smb), NL)), err |-> NilErr]

\* os.ReadDir(dir): the names of the directories directly in dir
ReadDir(dirs, dir) ==
    {SubSeq(q, Len(dir) + 2, Len(q)) :
        q \in {d \in dirs : /\ HasPrefix(d, dir \o <<"/">>)
                            /\ Len(d) > Len(dir) + 1
                            /\ \A j \in (Len(dir) + 2) .. Len(d) : d[j] # "/"}}

\* ListOrphanedDirectories: !userMap[dirName]
IsOrphan_Any(users, dirName) == TRUE
IsOrphan(users, dirName) == \A i \in 1 .. Len(users) : users[i].Username # dirName

\* ListOrphanedDirectories after ListUsers returned users: the slice as the set of its
\* elements (os.ReadDir returns every name once); the model has no files, so Size is 0
OrphansAmong(users, entries) ==
    {[Name |-> dirName, Path |-> PathJoin(HomeDir, dirName), Size |-> 0] :
        dirName \in {e \in entries : IsOrphan(users, e)}}

\* SambaService.ListOrphanedDirectories: [dirs, err]
ListOrphanedDirectories(S, failAt) ==
    IF ListUsers(S, failAt).err # NilErr THEN [dirs |-> {}, err |-> ListUsers(S, failAt).err]
    ELSE IF failAt = "readdir" THEN [dirs |-> {}, err |-> ErrIO]
    ELSE [dirs |-> OrphansAmong(ListUsers(S, failAt).users, ReadDir(S.fs, HomeDir)),
          err |-> NilErr]

\* UserHandler.ListOrphanedDirectories: h.service.ListOrphanedDirectories()
DoListOrphanedDirectories(failAt) ==
    /\ last' = [op |-> "ListOrphanedDirectories", failAt |-> failAt,
                dirs |-> ListOrphanedDirectories(World, failAt).dirs,
                err |-> ListOrphanedDirectories(World, failAt).err, pre |-> World]
    /\ UNCHANGED <<queueVars, callVars, storeVars>>

\* accounts alice, bob and ghost provisioned or not, their directories left behind or not
InitOrphan ==
    /\ IdleQueue
    /\ file = BaseDoc
    /\ \E P \in SUBSET {Alice, Bob, Ghost}, D \in SUBSET {Alice, Bob, Ghost} : Stranded(P, D)

NextOrphan ==
    \/ \E f \in ListFailures : Proceeding /\ DoListOrphanedDirectories(f)
    \/ \E u \in {Alice, Ghost}, d \in BOOLEAN :
           \E f \in {"none", "userdel"} : Proceeding /\ DoDeleteUser(u, d, f)

\* listings of the orphaned directories between deprovisioning calls
SpecOrphan == InitOrphan /\ [][NextOrphan]_vars

(***************************************************************************)
(* Claims about orphaned directories, checked under SpecOrphan.            *)
(***************************************************************************)
\* the names with a directory directly under the home root before the last call
HomeRootEntries == {u \in {Alice, Bob, Ghost} : HomeOf(u) \in last.pre.fs}

ListedOrphans == last.op = "ListOrphanedDirectories" /\ last.err = NilErr

\* C22: ListOrphanedDirectories returns exactly the directory entries of the home
\* root whose names are not in the account list (the accounts pdbedit -L lists).
C22_OrphansAreEntriesWithoutAccount ==
    ListedOrphans =>
        /\ {d.Name : d \in last.dirs} = HomeRootEntries \ last.pre.smb
        /\ \A d \in last.dirs : d.Path = HomeOf(d.Name)

\* the home root holds alice, bob and ghost, the accounts are alice and bob, and the
\* listing returned ghost alone
C22_Witness ==
    /\ ListedOrphans
    /\ HomeRootEntries = {Alice, Bob, Ghost}
    /\ last.pre.smb = {Alice, Bob}
    /\ {d.Name : d \in last.dirs} = {Ghost}

(***************************************************************************)
(* Claims about CreateShare calls one after the other, checked under       *)
(* SpecShare.                                                              *)
(***************************************************************************)
\* the record ListShares shows for a section that holds the fields of share under id
RecordOf(id, share) ==
    [ID |-> id, Owner |-> share.Owner,
     Path |-> PathJoin(HomeOf(share.Owner), cleanSubPath(share.SubPath).path),
     SharedWith |-> share.SharedWith, ReadOnly |-> share.ReadOnly,
     Comment |-> share.Comment, SubPath |-> cleanSubPath(share.SubPath).path]

\* the last call was a CreateShare without a name that returned an id
NamelessCreated ==
    /\ last.op = "CreateShare"
    /\ last.err = NilErr
    /\ last.share.Name = <<>>

\* the sections of the document before the last call that have the id it returned
SameIdBefore ==
    SelectSeq(parseSharesFromContent(last.pre.file), LAMBDA sh : sh.ID = last.id)

\* C23: two CreateShare calls for the same owner with no name that fall in the
\* same clock second never overwrite one record with the other's fields: after a
\* CreateShare without a name every section the document had before is as it
\* was, also one with the id of the new section, and the new section holds
\* exactly the fields given to this call.
C23_SameSecondNoOverwrite ==
    NamelessCreated =>
        parseSharesFromContent(file)
            = Append(parseSharesFromContent(last.pre.file), RecordOf(last.id, last.share))

\* a second CreateShare without a name in the same second: the document already had
\* a section with the id it returned, holding other fields
C23_Witness ==
    /\ NamelessCreated
    /\ SameIdBefore # <<>>
    /\ SameIdBefore[1].SharedWith # last.share.SharedWith
    /\ Len(SelectSeq(parseSharesFromContent(file), LAMBDA sh : sh.ID = last.id)) = 2

(***************************************************************************)
(* Claims about the reload at the end of a call, checked under SpecText.   *)
(***************************************************************************)
\* the result of the last call of SpecText had smbcontrol succeeded (no backup file
\* lies beside smb.conf before the one call of a run)
WithReloadOK ==
    CASE last.op = "CreateShare" -> CreateShare(last.pre, last.share, now, "none")
      [] last.op = "UpdateShare" -> AdminUpdateShare(last.pre, last.shareId, last.r, "none")
      [] last.op = "DeleteShare" -> AdminDeleteShare(last.pre, last.shareId, "none")
      [] last.op = "DeleteUser" ->
             DeleteUser(last.pre, last.username, last.deleteHomeDir, "none")
      [] last.op = "UpdateSambaConfig" -> UpdateSambaConfig(last.pre, last.update, "none")
      [] last.op = "UpdateSambaConfigFile" ->
             UpdateSambaConfigFile(last.pre, "none", last.content, last.valid, "none")[1]

\* the last call ran with smbcontrol failing whenever it is run
ReloadFails == last.op # "none" /\ last.failAt = "reload"

\* the last call ran smbcontrol
RanReload == \E i \in 1 .. Len(last.cmds) : last.cmds[i] = <<"smbcontrol">>

\* C24: the result of every mutating operation (CreateShare, UpdateShare,
\* DeleteShare, DeleteUser, UpdateSambaConfig, UpdateSambaConfigFile) is the same
\* whether the reload succeeds or fails: what it returns, smb.conf, the
\* directories and the accounts are what they are when the reload succeeds, and a
\* call that got as far as the reload returns success.
C24_ReloadFailureNotSurfaced ==
    ReloadFails =>
        /\ last.err = WithReloadOK.err
        /\ last.id = WithReloadOK.id
        /\ World = [file |-> WithReloadOK.file, fs |-> WithReloadOK.fs,
                    unix |-> WithReloadOK.unix, smb |-> WithReloadOK.smb,
                    en |-> WithReloadOK.en]
        /\ RanReload => last.err = NilErr

\* a call changed smb.conf, its reload failed, and it returned success
C24_Witness ==
    /\ ReloadFails
    /\ RanReload
    /\ last.err = NilErr
    /\ file # last.pre.file

(***************************************************************************)
(* Claims about the rollbacks of CreateUser, checked under SpecUser.       *)
(***************************************************************************)
\* the last call was a CreateUser that returned an error after the validation
CreateUserFailed ==
    /\ last.op = "CreateUser"
    /\ last.err \notin {NilErr, ErrInvalidUsername}

\* the positions in cmds of the commands with the given name
Positions(cmds, name) == {i \in 1 .. Len(cmds) : cmds[i][1] = name}

\* C25: if enabling the account (smbpasswd -e) fails, CreateUser removes the
\* account and then the home directory before it returns the error, so neither
\* exists afterwards (when the userdel of the rollback does its work).
C25_EnableFailureUndone ==
    (CreateUserFailed /\ last.failAt = "enable" /\ last.rollbackOK /\ FreshBefore)
    => /\ last.username \notin unixUsers
       /\ HomeOf(last.username) \notin fs
       /\ \E i \in Positions(last.cmds, "userdel") :
              \E j \in Positions(last.cmds, "RemoveAll") : i < j

\* C26: a failed CreateUser undoes only what that call itself completed: a home
\* directory or an account of the username that existed before the call is
\* still there after the call has failed.
C26_FailedCreateKeepsExisting ==
    CreateUserFailed
    => /\ HomeOf(last.username) \in last.pre.fs => HomeOf(last.username) \in fs
       /\ last.username \in last.pre.unix => last.username \in unixUsers
       /\ last.username \in last.pre.smb => last.username \in smbUsers

(***************************************************************************)
(* Claims about the side effects of failed share calls, checked under      *)
(* SpecShare.                                                              *)
(***************************************************************************)
\* the validation, not-found and conflict errors of the share operations
ShareRejections ==
    {ErrInvalidOwner, ErrInvalidShareName, ErrNoSharedWith, ErrInvalidSharedWith,
     ErrInvalidShareID, ErrTraversal, ErrNoOwnerHome, ErrConflict, ErrNotFound}

\* C27: a share operation that fails with a validation, not-found or conflict
\* error has performed no side effect before failing: it has created no
\* subdirectory, has run neither chown nor chmod, and has left smb.conf, the
\* directories and the accounts as they were.
C27_RejectedShareCallNoSideEffect ==
    (last.op \in {"CreateShare", "UpdateShare", "DeleteShare"} /\ last.err \in ShareRejections)
    => /\ \A i \in 1 .. Len(last.cmds) : last.cmds[i][1] \notin {"MkdirAll", "chown", "chmod"}
       /\ World = last.pre

(***************************************************************************)
(* Claims about the order of the steps of DeleteUser, checked under        *)
(* SpecUser.                                                               *)
(***************************************************************************)
\* the last call was a DeleteUser that could not read smb.conf, or could not write
\* the modified smb.conf
DeleteUserConfigFailed ==
    /\ last.op = "DeleteUser"
    /\ \/ last.failAt = "read"
       \/ last.failAt = "write" /\ Positions(last.cmds, "WriteFile") # {}

DeleteUserWrote ==
    /\ last.op = "DeleteUser"
    /\ last.failAt # "write"
    /\ Positions(last.cmds, "WriteFile") # {}

\* C29: every DeleteUser run that writes the modified config file triggers a
\* reload after that write, whether or not the later account removal succeeds.
C29_ReloadAfterEveryWrite ==
    DeleteUserWrote
    => \E i \in Positions(last.cmds, "WriteFile") :
           \E j \in Positions(last.cmds, "smbcontrol") : i < j

Involving(content, username) ==
    SelectSeq(parseSharesFromContent(content), LAMBDA sh : Involves(sh, username))

\* C31: DeleteUser writes the config file at most once, after the one read at
\* its start, with every planned deletion and update applied together: the
\* file after the call is either the file as it was or a file in which no share
\* names the user any more, never one with only part of the plan applied.
C31_OneWriteWholePlan ==
    last.op = "DeleteUser"
    => /\ Cardinality(Positions(last.cmds, "WriteFile")) <= 1
       /\ Cardinality(Positions(last.cmds, "ReadFile")) = 1
       /\ \A i \in Positions(last.cmds, "WriteFile") :
              \A j \in Positions(last.cmds, "ReadFile") : j < i
       /\ \/ file = last.pre.file
          \/ Involving(file, last.username) = <<>>
       /\ (Positions(last.cmds, "WriteFile") = {} \/ last.failAt = "write")
              => file = last.pre.file

\* alice owned a share and was named in a share of bob: one write removed the one
\* and rewrote the other
C31_Witness ==
    /\ last.op = "DeleteUser"
    /\ last.username = Alice
    /\ Cardinality(Positions(last.cmds, "WriteFile")) = 1
    /\ \E i, j \in 1 .. Len(Involving(last.pre.file, Alice)) :
           /\ Involving(last.pre.file, Alice)[i].Owner = Alice
           /\ Involving(last.pre.file, Alice)[j].Owner = Bob
           /\ Len(Involving(last.pre.file, Alice)[j].SharedWith) > 1
    /\ Involving(file, Alice) = <<>>
    /\ file # last.pre.file

\* the shares DeleteUser(username) keeps and rewrites: owned by another user,
\* with the user and somebody else in valid users
Rewritten(content, username) ==
    SelectSeq(Involving(content, username),
              LAMBDA sh : sh.Owner # username
                          /\ Len(removeFromSlice(sh.SharedWith, username)) > 0)

\* C32: when DeleteUser(u) has removed u from the valid users of a share owned
\* by another user, the share is still in the document with the same resolved
\* path (its subpath included), the same read-only flag and the same comment.
C32_RewrittenShareKeepsAttributes ==
    (last.op = "DeleteUser" /\ "WriteFile" \in {last.cmds[i][1] : i \in 1 .. Len(last.cmds)}
       /\ last.failAt # "write")
    => \A i \in 1 .. Len(Rewritten(last.pre.file, last.username)) :
           \E j \in 1 .. Len(parseSharesFromContent(file)) :
               LET old == Rewritten(last.pre.file, last.username)[i]
                   new == parseSharesFromContent(file)[j]
               IN /\ new.ID = old.ID
                  /\ new.Owner = old.Owner
                  /\ new.Path = old.Path
                  /\ new.SubPath = old.SubPath
                  /\ new.ReadOnly = old.ReadOnly
                  /\ new.Comment = old.Comment

\* the same, for the shares that had no subpath
C32_HomeShareKeepsAttributes ==
    (last.op = "DeleteUser" /\ "WriteFile" \in {last.cmds[i][1] : i \in 1 .. Len(last.cmds)}
       /\ last.failAt # "write")
    => \A i \in 1 .. Len(Rewritten(last.pre.file, last.username)) :
           Rewritten(last.pre.file, last.username)[i].SubPath = <<>>
           => \E j \in 1 .. Len(parseSharesFromContent(file)) :
                  LET old == Rewritten(last.pre.file, last.username)[i]
                      new == parseSharesFromContent(file)[j]
                  IN /\ new.ID = old.ID
                     /\ new.Path = old.Path
                     /\ new.ReadOnly = old.ReadOnly
                     /\ new.Comment = old.Comment

(***************************************************************************)
(* Claims about the order of steps in the raw replace, checked under       *)
(* SpecText.                                                               *)
(***************************************************************************)
\* the last call was UpdateSambaConfigFile and it ran testparm
Validated ==
    /\ last.op = "UpdateSambaConfigFile"
    /\ Positions(last.cmds, "testparm") # {}

\* the writes of smb.conf itself among the commands of the last call
ConfWrites == {i \in Positions(last.cmds, "WriteFile") : Len(last.cmds[i]) = 1}

\* testparm runs once, after one write of smb.conf; accepted content stays and a
\* reload follows; after rejected content a second write follows and no reload
ValidationOrder ==
    Validated =>
        /\ Cardinality(Positions(last.cmds, "testparm")) = 1
        /\ \A t \in Positions(last.cmds, "testparm") :
              /\ Cardinality({i \in ConfWrites : i < t}) = 1
              /\ IF last.valid
                 THEN /\ file = last.content
                      /\ last.err = NilErr
                      /\ \E r \in Positions(last.cmds, "smbcontrol") : r > t
                      /\ {i \in ConfWrites : i > t} = {}
                 ELSE /\ Cardinality({i \in ConfWrites : i > t}) = 1
                      /\ Positions(last.cmds, "smbcontrol") = {}
                      /\ last.err # NilErr

\* C33: UpdateSambaConfigFile runs validation only after the new content has
\* been written; when validation passes the file holds exactly the submitted
\* content and a reload is triggered; when validation fails the original
\* content is written back (smb.conf holds it again) and no reload is triggered.
C33_ValidateAfterWriteThenReloadOrRevert ==
    /\ ValidationOrder
    /\ (Validated /\ ~last.valid) => file = last.pre.file

\* the same, for the calls whose write-back did not fail
C33_WhenWriteBackSucceeds ==
    /\ ValidationOrder
    /\ (Validated /\ ~last.valid /\ last.failAt # "revert") => file = last.pre.file

(***************************************************************************)
(* Claims about concurrent updates of smb.conf, checked under SpecConfig.  *)
(***************************************************************************)
\* every request has returned to its client
AllReturned == \A c \in Clients : cpc[c] = "returned"

\* a raw replace was accepted: the document is then the submitted one by design
RawAccepted ==
    \E c \in Clients : req[c].kind = "UpdateSambaConfigFile" /\ ret[c] = NilErr

\* C34: no update of smb.conf is lost when operations run concurrently: once
\* every operation has finished, the section of every CreateShare that returned
\* success is in the file, whatever UpdateSambaConfig or a rejected
\* UpdateSambaConfigFile (with its write-back) did meanwhile.
C34_NoLostUpdate ==
    (AllReturned /\ ~RawAccepted)
    => \A c \in Clients :
           (req[c].kind = "CreateShare" /\ tres[c] = NilErr)
           => HasSection(file, ShareName(req[c].share, now))

\* the same when only the queued CreateShare calls run
C34_QueuedCallsKeepTheirSections ==
    (AllReturned /\ \A c \in Clients : req[c].kind = "CreateShare")
    => \A c \in Clients :
           tres[c] = NilErr => HasSection(file, ShareName(req[c].share, now))

(***************************************************************************)
(* Shutdown with fair scheduling: a goroutine that can take its next step  *)
(* takes it eventually (Shutdown goes on to close and Wait, a task that    *)
(* runs returns, wrappedTask sends on done), and the worker's select,      *)
(* which chooses at random among its ready cases, does not pass over a     *)
(* ready q.ctx.Done() for ever. Nothing is assumed of the submitters.      *)
(***************************************************************************)
FairQueue ==
    /\ WF_vars(ShutdownClose)
    /\ WF_vars(ShutdownWait)
    /\ \A c \in Callers : WF_vars(TaskReturn(c))
    /\ \A w \in Workers : WF_vars(WorkerFinish(w))
    /\ \A w \in Workers : WF_vars(WorkerExit(w))

SpecQueueFair == SpecQueue /\ FairQueue

\* a step takes no worker out of a task before the task has returned
RunsToCompletion ==
    \A w \in Workers :
        wpc[w] = "running"
        => \/ wpc'[w] = "running" /\ wcur'[w] = wcur[w]
           \/ wpc'[w] = "select" /\ opc[wcur[w]] = "ret" /\ opc'[wcur[w]] = "done"

\* C35: Shutdown returns only after every worker has exited; a task executing
\* when Shutdown is called runs to completion and is not interrupted; and
\* Shutdown, once called, eventually returns, given that the task terminates.
C35_ShutdownWaitsForWorker ==
    /\ [](sdpc = "returned"
          => /\ \A w \in Workers : wpc[w] = "exited"
             /\ \A c \in Callers : Started(c) => Finished(c))
    /\ [][RunsToCompletion]_vars
    /\ (sdpc # "idle") ~> (sdpc = "returned")

\* Shutdown has cancelled and closed and waits while the worker is inside a task
C35_Witness ==
    /\ sdpc = "closed"
    /\ \E w \in Workers : wpc[w] = "running" /\ Executing(wcur[w])

(***************************************************************************)
(* Claims about the share ids of the document, checked under SpecShare.    *)
(***************************************************************************)
\* the ids of the share sections, in document order
ShareIdsOf(content) ==
    [i \in 1 .. Len(parseSharesFromContent(content)) |-> parseSharesFromContent(content)[i].ID]

\* C36: share ids are unique in the document: after any sequence of CreateShare
\* calls no two share sections have the same header, and so removing the
\* section of an id as DeleteShare does removes exactly one share.
C36_ShareIdsUnique ==
    /\ \A i, j \in 1 .. Len(ShareIdsOf(file)) :
           ShareIdsOf(file)[i] = ShareIdsOf(file)[j] => i = j
    /\ \A i \in 1 .. Len(ShareIdsOf(file)) :
           Len(ShareIdsOf(modifySharesInContent(file, {ShareIdsOf(file)[i]}, EmptyMap)))
               = Len(ShareIdsOf(file)) - 1

\* the ids that stand twice in the document are ids made from the time
C36_OnlyTimestampIdsRepeat ==
    \A i, j \in 1 .. Len(ShareIdsOf(file)) :
        (ShareIdsOf(file)[i] = ShareIdsOf(file)[j] /\ i # j)
        => \E t \in 0 .. MaxClock :
               ShareIdsOf(file)[i] = ShareName(Share(<<>>, Bob, <<>>, FALSE, <<>>, <<>>), t)

(***************************************************************************)
(* CreateShare and UpdateShare with free-text comments: the comment of a   *)
(* request is any string, the handlers pass req.Comment on unchecked.      *)
(***************************************************************************)
\* the comments of the requests: none, a word, bracketed text, two lines, a second
\* line that is bracketed text
Comments ==
    { <<>>,
      <<"note">>,
      <<"[", "homes", "]">>,
      <<"note", NL, "x">>,
      <<"note", NL, "[", "homes", "]">> }

BobShare2 == <<"bob", "-share-", "2">>

\* the documents of the model have fewer than MaxHeaders section headers
MaxHeaders == 6

\* the number of section headers of the text
HeaderCount(content) ==
    Len(SelectSeq(ScanLines(content), LAMBDA line : IsHeaderLine(TrimSpace(line))))

InitComment ==
    /\ IdleQueue
    /\ file = BaseDoc \o buildShareConfig(BobShare1,
                                          Share(<<"1">>, Bob, <<Alice, Carol>>, TRUE, <<>>, <<>>))
    /\ Provisioned({Alice, Bob, Carol})

NextComment ==
    \/ \E c \in Comments, f \in {"none", "write"} :
           Proceeding /\ DoCreateShare(Share(<<"2">>, Bob, <<Alice>>, FALSE, c, <<>>), f)
    \/ \E c \in Comments, id \in {BobShare1, BobShare2} :
           \E f \in {"none", "write"} :
               Proceeding
               /\ HeaderCount(file) < MaxHeaders
               /\ DoAdminUpdateShare(id, [SharedWith |-> <<Carol>>, ReadOnly |-> TRUE,
                                          Comment |-> c, SubPath |-> <<>>], f)

\* share creations and updates with any comment, one call after the other
SpecComment == InitComment /\ [][NextComment]_vars

\* the lines that are not in section id, one pass: st = [cur, lines], cur the name
\* of the section the line is in
OutsideLine(st, line, id) ==
    LET trimmedLine == TrimSpace(line)
        cur == IF IsHeaderLine(trimmedLine) THEN Trim(trimmedLine, {"[", "]"}) ELSE st.cur
    IN [cur |-> cur,
        lines |-> IF cur # id THEN Append(st.lines, line) ELSE st.lines]

RECURSIVE OutsideLines(_, _, _)
OutsideLines(st, lines, id) ==
    IF st = st /\ lines # <<>>
    THEN OutsideLines(OutsideLine(st, Head(lines), id), Tail(lines), id)
    ELSE st

\* the lines of the text outside section id, in order
LinesOutside(content, id) ==
    OutsideLines([cur |-> <<>>, lines |-> <<>>], ScanLines(content), id).lines

\* the last call created a share, or rewrote the section of an existing one
SectionWritten(op) ==
    /\ last.op = op
    /\ last.err = NilErr
    /\ op = "UpdateShare" => HasSection(last.pre.file, last.shareId)

\* a successful CreateShare adds one header after the text as it was, a
\* successful UpdateShare keeps the number of headers and every line outside the
\* section it rewrites
OneSectionTouched ==
    /\ SectionWritten("CreateShare")
       => /\ HeaderCount(file) = HeaderCount(last.pre.file) + 1
          /\ SubSeq(file, 1, Len(last.pre.file)) = last.pre.file
    /\ SectionWritten("UpdateShare")
       => /\ HeaderCount(file) = HeaderCount(last.pre.file)
          /\ LinesOutside(file, last.shareId) = LinesOutside(last.pre.file, last.shareId)

\* C37: a successful CreateShare adds exactly one section header and a successful
\* UpdateShare leaves the number of headers unchanged, every line of every other
\* section being unchanged, for any free-text comment, also one that contains
\* line breaks or bracketed text.
C37_CommentAddsNoSection == OneSectionTouched

\* the comment of the last call, whichever call it was
LastComment == IF last.op = "CreateShare" THEN last.share.Comment ELSE last.r.Comment

\* the same, for the calls whose comment is one line
C37_OneLineComments ==
    (last.op # "none" /\ ~Contains(LastComment, <<NL>>)) => OneSectionTouched

(***************************************************************************)
(* DeleteOrphanedDirectory, called with any directory name between         *)
(* deprovisioning calls.                                                   *)
(***************************************************************************)
ErrUserExists == "cannot delete directory: user still exists"
ErrDirNameRequired == "Directory name is required"

\* DeleteOrphanedDirectory: the loop over users, user.Username == dirName
StillExists(users, dirName) == \E i \in 1 .. Len(users) : users[i].Username = dirName

\* SambaService.DeleteOrphanedDirectory
DeleteOrphanedDirectory(S, dirName, failAt) ==
    LET R0 == Ran(Begin(S), <<"pdbedit">>)
        dirPath == PathJoin(HomeDir, dirName)
    IN IF ListUsers(S, failAt).err # NilErr THEN Fail(R0, ListUsers(S, failAt).err)
       ELSE IF StillExists(ListUsers(S, failAt).users, dirName) THEN Fail(R0, ErrUserExists)
       ELSE IF failAt = "remove" THEN Fail(Ran(R0, <<"RemoveAll", dirPath>>), ErrIO)
       ELSE Rmdir(R0, dirPath)

\* UserHandler.DeleteOrphanedDirectory: an empty dirName is refused, any other is
\* handed to the service in a task of the queue
DoDeleteOrphanedDirectory(dirName, failAt) ==
    IF dirName = <<>>
    THEN Apply(Fail(Begin(World), ErrDirNameRequired),
               Call("DeleteOrphanedDirectory", dirName, NoShareArg, FALSE, failAt))
    ELSE Apply(DeleteOrphanedDirectory(World, dirName, failAt),
               Call("DeleteOrphanedDirectory", dirName, NoShareArg, FALSE, failAt))

\* the values of the path parameter dirName
DirNames == {Alice, Bob, Ghost, <<".">>, <<"..">>, <<>>}

NextOrphanDelete ==
    \/ \E n \in DirNames, f \in {"none", "pdbedit", "remove"} :
           Proceeding /\ DoDeleteOrphanedDirectory(n, f)
    \/ \E u \in {Alice, Ghost}, d \in BOOLEAN :
           \E f \in {"none", "userdel"} : Proceeding /\ DoDeleteUser(u, d, f)

\* removals of orphaned directories between deprovisioning calls
SpecOrphanDelete == InitOrphan /\ [][NextOrphanDelete]_vars

\* the directories directly under the home root that the last call removed
RemovedEntries == ReadDir(last.pre.fs, HomeDir) \ ReadDir(fs, HomeDir)

\* the last call left the home directory of every account in place, and what it
\* removed is at most one directory directly under the home root, with what is in it
OnlyOneOrphanRemoved ==
    /\ \A u \in last.pre.smb : HomeOf(u) \in last.pre.fs => HomeOf(u) \in fs
    /\ \A q \in last.pre.fs \ fs : q # HomeDir /\ Inside(q, HomeDir)
    /\ Cardinality(RemovedEntries) <= 1

\* C38: DeleteOrphanedDirectory never removes the home directory of an existing
\* account and never removes anything other than one directory directly under
\* the home root, for any directory name, "." and ".." included.
C38_OrphanDeleteStaysUnderHomeRoot ==
    last.op = "DeleteOrphanedDirectory" => OnlyOneOrphanRemoved

\* the same, for the names other than "." and ".."
C38_PlainNames ==
    (last.op = "DeleteOrphanedDirectory" /\ last.username \notin {<<".">>, <<"..">>})
    => /\ OnlyOneOrphanRemoved
       /\ last.err = NilErr => RemovedEntries \subseteq {last.username}

(***************************************************************************)
(* ListOrphanedDirectories running while CreateUser runs. The handler of   *)
(* the listing calls the service on the request's goroutine, and the       *)
(* service takes no lock: its pdbedit -L and its os.ReadDir are steps of   *)
(* their own between the steps of the CreateUser task the worker runs.     *)
(* The tools succeed, except useradd for a name that has an account.       *)
(***************************************************************************)
ListingReq == [kind |-> "ListOrphanedDirectories", route |-> "direct", mode |-> "call"]
CreateUserReq(u) ==
    [kind |-> "CreateUser", route |-> "queue", mode |-> "SubmitSync", username |-> u]

\* ListOrphanedDirectories: users, err := s.ListUsers()
ListingListUsers(c) ==
    /\ req[c].kind = "ListOrphanedDirectories"
    /\ cpc[c] = "idle"
    /\ loc' = [loc EXCEPT ![c] = ListUsers(World, "none").users]
    /\ cpc' = [cpc EXCEPT ![c] = "listed"]
    /\ UNCHANGED <<queueVars, req, done, ret, accepted, opc, tres, storeVars, last>>

\* ListOrphanedDirectories: os.ReadDir(homeDir), the loop over the entries, the return
ListingReadDir(c) ==
    /\ req[c].kind = "ListOrphanedDirectories"
    /\ cpc[c] = "listed"
    /\ ret' = [ret EXCEPT ![c] = OrphansAmong(loc[c], ReadDir(fs, HomeDir))]
    /\ cpc' = [cpc EXCEPT ![c] = "returned"]
    /\ UNCHANGED <<queueVars, req, done, accepted, opc, tres, loc, storeVars, last>>

\* CreateUser: s.mu.Lock(), the validation, os.MkdirAll(homeDir), chown, chmod
CreateUserMkdir(c) ==
    /\ req[c].kind = "CreateUser"
    /\ opc[c] = "start"
    /\ mu = 0
    /\ IF isValidUsername(req[c].username)
       THEN /\ fs' = MkdirAll(fs, HomeOf(req[c].username))
            /\ mu' = c
            /\ opc' = [opc EXCEPT ![c] = "dir"]
            /\ tres' = tres
       ELSE /\ tres' = [tres EXCEPT ![c] = ErrInvalidUsername]
            /\ opc' = [opc EXCEPT ![c] = "ret"]
            /\ UNCHANGED <<fs, mu>>
    /\ UNCHANGED <<queueVars, req, cpc, done, ret, accepted, loc>>
    /\ UNCHANGED <<file, backup, unixUsers, smbUsers, smbEnabled, now, last>>

\* CreateUser: useradd --extrausers; on failure os.RemoveAll(homeDir) and the return
CreateUserUseradd(c) ==
    /\ req[c].kind = "CreateUser"
    /\ opc[c] = "dir"
    /\ IF req[c].username \in unixUsers
       THEN /\ fs' = RemoveAll(fs, HomeOf(req[c].username))
            /\ tres' = [tres EXCEPT ![c] = ErrTool]
            /\ opc' = [opc EXCEPT ![c] = "ret"]
            /\ mu' = 0
            /\ unixUsers' = unixUsers
       ELSE /\ unixUsers' = unixUsers \cup {req[c].username}
            /\ opc' = [opc EXCEPT ![c] = "unix"]
            /\ UNCHANGED <<fs, tres, mu>>
    /\ UNCHANGED <<queueVars, req, cpc, done, ret, accepted, loc>>
    /\ UNCHANGED <<file, backup, smbUsers, smbEnabled, now, last>>

\* CreateUser: smbpasswd -a -s
CreateUserSmbpasswd(c) ==
    /\ req[c].kind = "CreateUser"
    /\ opc[c] = "unix"
    /\ smbUsers' = smbUsers \cup {req[c].username}
    /\ opc' = [opc EXCEPT ![c] = "smb"]
    /\ UNCHANGED <<queueVars, req, cpc, done, ret, accepted, tres, loc>>
    /\ UNCHANGED <<file, backup, mu, fs, unixUsers, smbEnabled, now, last>>

\* CreateUser: smbpasswd -e, return nil, the deferred s.mu.Unlock()
CreateUserEnable(c) ==
    /\ req[c].kind = "CreateUser"
    /\ opc[c] = "smb"
    /\ smbEnabled' = smbEnabled \cup {req[c].username}
    /\ tres' = [tres EXCEPT ![c] = NilErr]
    /\ opc' = [opc EXCEPT ![c] = "ret"]
    /\ mu' = 0
    /\ UNCHANGED <<queueVars, req, cpc, done, ret, accepted, loc>>
    /\ UNCHANGED <<file, backup, fs, unixUsers, smbUsers, now, last>>

InitListing ==
    /\ QueueInit
    /\ last = NoCall
    /\ file = BaseDoc
    /\ \E u \in {Alice, Ghost, <<"..">>} :
           req = [c \in Callers |-> IF c = 1 THEN ListingReq
                                    ELSE IF c = 2 THEN CreateUserReq(u)
                                    ELSE NoReq]
    /\ \E P \in SUBSET {Alice, Bob}, D \in SUBSET {Alice, Bob} : Stranded(P, D)

NextListing ==
    \/ \E c \in Callers : ListingListUsers(c)
    \/ \E c \in Callers : ListingReadDir(c)
    \/ \E c \in Callers : SubmitSend(c)
    \/ \E w \in Workers : WorkerReceive(w)
    \/ \E c \in Callers : CreateUserMkdir(c)
    \/ \E c \in Callers : CreateUserUseradd(c)
    \/ \E c \in Callers : CreateUserSmbpasswd(c)
    \/ \E c \in Callers : CreateUserEnable(c)
    \/ \E w \in Workers : WorkerFinish(w)
    \/ \E c \in Callers : SubmitSyncReturn(c)

\* one listing and one CreateUser, their steps interleaved in every way
SpecListing == InitListing /\ [][NextListing]_vars

\* the step with which the listing of caller c returns
ListingReturns(c) == cpc[c] = "listed" /\ cpc'[c] = "returned"

\* C39: ListOrphanedDirectories never reports a directory whose name is an
\* existing account at the moment the listing returns, also when a CreateUser
\* for that name runs concurrently.
C39_NoAccountListedAsOrphan ==
    [][\A c \in Callers :
           ListingReturns(c) => \A d \in ret'[c] : d.Name \notin smbUsers']_vars

\* the same, for the listings whose account list is still the current one when the
\* directory is read
C39_WhenAccountListCurrent ==
    [][\A c \in Callers :
           (ListingReturns(c) /\ loc[c] = ListUsers(World, "none").users)
           => \A d \in ret'[c] : d.Name \notin smbUsers']_vars

(***************************************************************************)
(* The owner in the share id: CreateShare for owners whose names hold      *)
(* -share-, dashes and underscores, with custom names and with the time    *)
(* as the suffix, and the owner parseSharesFromContent reads back from     *)
(* the header.                                                             *)
(***************************************************************************)
\* valid usernames: plain, with -share- inside, one that reads like a share id, ending
\* and starting with -share-
ShareOwners ==
    { Bob,
      <<"a", "-share-", "b">>,
      <<"bob", "-share-", "1">>,
      <<"a", "_", "-share-">>,
      <<"-share-", "a", "-", "1">> }

\* valid share names: none (the time is used), letters, digits and Han characters
OwnerShareNames == {<<>>, <<"Docs", "1", "han">>}

InitShareId ==
    /\ IdleQueue
    /\ file = BaseDoc
    /\ Provisioned(ShareOwners \cup {Alice})

NextShareId ==
    \/ \E o \in ShareOwners, n \in OwnerShareNames :
           Proceeding /\ DoCreateShare(Share(n, o, <<Alice>>, FALSE, <<>>, <<>>), "none")
    \/ Proceeding /\ Tick

\* shares created for every owner and name, one call after the other
SpecShareId == InitShareId /\ [][NextShareId]_vars

\* the shares ListShares shows under the id the last call returned
ListedUnder(id) == SelectSeq(parseSharesFromContent(file), LAMBDA sh : sh.ID = id)

\* C40: the owner round-trips through the share id: for every valid owner, also
\* one whose name contains -share-, and every valid custom name or time suffix,
\* the share a successful CreateShare made is listed under the id returned, with
\* the owner it was created for.
C40_OwnerRoundTrip ==
    (last.op = "CreateShare" /\ last.err = NilErr)
    => /\ sharePatternMatch(last.id)
       /\ sharePatternOwner(last.id) = last.share.Owner
       /\ ListedUnder(last.id) # <<>>
       /\ \A i \in 1 .. Len(ListedUnder(last.id)) :
              ListedUnder(last.id)[i].Owner = last.share.Owner

\* a share of the user a-share-b with a custom name is listed with owner a-share-b
C40_Witness ==
    /\ last.op = "CreateShare"
    /\ last.err = NilErr
    /\ last.share.Owner = <<"a", "-share-", "b">>
    /\ last.share.Name = <<"Docs", "1", "han">>
    /\ last.id = <<"a", "-share-", "b", "-share-", "Docs", "1", "han">>
    /\ ListedUnder(last.id) # <<>>
    /\ ListedUnder(last.id)[1].Owner = <<"a", "-share-", "b">>

====
